---- MODULE Spec2Model ----
(***************************************************************************)
(* A model of the xueqiu article scraper: the request layer with its       *)
(* bounded retry (scraper/api.py), the checkpoint store (scraper/storage.py *)
(* and scraper/models.py) and the crawl orchestrator with its two modes,    *)
(* full sync and comment backfill (scraper/crawler.py).                     *)
(***************************************************************************)
EXTENDS Integers, Sequences, FiniteSets, TLC

VARIABLES
    tx,         \* one call of a pure function: sanitize_filename, the content transforms
    rq,         \* one call of _request_with_retry in progress (SpecReq)
    cm,         \* one call of fetch_all_author_comments (SpecComments)
    remote,     \* the remote timeline: the article ids the listing endpoint serves
    max_pages,  \* config.max_pages (0 = no cap)
    disk,       \* <data_dir>/manifest.json
    files,      \* the Markdown files under <data_dir>, by path
    flushed,    \* history: the manifest written by the last completed save_manifest
    run,        \* the locals of the run in progress (sync_articles / backfill_comments)
    hist        \* history of the run: requests issued, failures seen, the previous run

vars == <<tx, rq, cm, remote, max_pages, disk, files, flushed, run, hist>>
crawlVars == <<tx, cm, remote, max_pages, disk, files, flushed, run, hist>>

----------------------------------------------------------------------------
(* Bounds of the model *)

MaxId == 2          \* article ids are 1..MaxId
MaxItems == 3       \* the remote timeline holds at most MaxItems articles
MaxRuns == 2        \* runs (full sync or backfill) started in one behaviour
MaxBatch == 7       \* the articles of the long timeline (SpecBatch)

(* Program constants and configuration *)

MAX_RETRIES == 5
RETRY_BASE_DELAY == 30
\* RETRY_JITTER = 0.5, in hundredths
RETRY_JITTER_PCT == 50
\* config.page_size: articles per listing page, as configured for the runs
PageSize == 2
\* config.user_id, the user whose articles are fetched (any id will do)
ConfigUserId == 7

Ids == 1..MaxId

\* No pure function called yet.
NoTx == [fn |-> "none", arg |-> <<>>, out |-> <<>>]

----------------------------------------------------------------------------
(* The request layer: _request_with_retry, scraper/api.py *)

\* resp.headers.get("Retry-After"): None, a text float() rejects, or the text
\* of a number of seconds (the server may send any number).
NoHeader == [kind |-> "absent", value |-> 0]
RetryAfterValues ==
    {NoHeader, [kind |-> "text", value |-> 0]}
    \cup {[kind |-> "number", value |-> v] : v \in {-1, 0, 20}}

\* What random.uniform(1 - RETRY_JITTER, 1 + RETRY_JITTER) can draw, in
\* hundredths: the two ends of the interval.
Jitters == {100 - RETRY_JITTER_PCT, 100 + RETRY_JITTER_PCT}

\* What one client.request can come back with.  conn: the transport raised
\* (httpx.RequestError); ok2xx: the status is 2xx; jsonct: the content-type
\* header holds "json"; parses: the body is valid JSON; retry_after: the
\* Retry-After header of a rate-limit page; jitter: the draw of random.uniform
\* made while that page is handled.
Responses ==
    {r \in [conn : {FALSE}, ok2xx : BOOLEAN, jsonct : BOOLEAN, parses : BOOLEAN,
            retry_after : {NoHeader}, jitter : {100}] : ~r.ok2xx \/ r.jsonct}
    \cup {[conn |-> TRUE, ok2xx |-> FALSE, jsonct |-> FALSE, parses |-> FALSE,
           retry_after |-> NoHeader, jitter |-> 100]}
    \cup [conn : {FALSE}, ok2xx : {TRUE}, jsonct : {FALSE}, parses : {FALSE},
          retry_after : RetryAfterValues, jitter : Jitters]

\* The locals of a call before its first attempt.  events is the order of the
\* requests and the completed time.sleep calls; resps the responses received;
\* delays the arguments time.sleep was called with, in hundredths of a second.
ReqStart ==
    [attempt |-> 1, outcome |-> "running", resps |-> <<>>, events |-> <<>>,
     delays |-> <<>>]

Finish(st, how) == [st EXCEPT !.outcome = how]

\* base_delay, in seconds: float(retry_after) when the header is there and
\* float() takes it, RETRY_BASE_DELAY * attempt otherwise.
BaseDelay(attempt, h) ==
    IF h.kind = "number" THEN h.value ELSE RETRY_BASE_DELAY * attempt

\* delay = base_delay * random.uniform(...), in hundredths of a second.
Delay(attempt, r) == BaseDelay(attempt, r.retry_after) * r.jitter

\* time.sleep(delay): ValueError for a negative delay, else the sleep and
\* the next pass of the loop.
Sleep(st, d) ==
    IF d < 0
    THEN [st EXCEPT !.delays = Append(@, d), !.outcome = "ValueError"]
    ELSE [st EXCEPT !.delays = Append(@, d), !.events = Append(@, "sleep"),
                    !.attempt = @ + 1]

\* The WAF branch with the sleep taken on the last attempt too.
WafBranchSleepsLast(st, r) ==
    IF st.attempt < MAX_RETRIES
    THEN Sleep(st, Delay(st.attempt, r))
    ELSE [st EXCEPT !.events = Append(@, "sleep"), !.outcome = "Exhausted"]

\* A 2xx response that is not JSON-typed: sleep and go round again while
\* attempt < MAX_RETRIES, raise RuntimeError on the last attempt.
WafBranch(st, r) ==
    IF st.attempt < MAX_RETRIES
    THEN Sleep(st, Delay(st.attempt, r))
    ELSE Finish(st, "Exhausted")

\* The JSON branch with a parse failure handled as a rate-limit hit.
JsonBranchRetriesParse(st, r) ==
    IF r.parses THEN Finish(st, "ok") ELSE WafBranch(st, r)

\* A 2xx JSON-typed response: return resp.json(), or RuntimeError when the
\* body does not parse.
JsonBranch(st, r) ==
    IF r.parses THEN Finish(st, "ok") ELSE Finish(st, "JSONError")

\* One attempt with the content type looked at before the status.
AttemptTypeBeforeStatus(st, r) ==
    LET s1 == [st EXCEPT !.resps = Append(@, r),
                         !.events = Append(@, "request")]
    IN  IF r.conn THEN Finish(s1, "RequestError")
        ELSE IF r.jsonct
             THEN IF ~r.ok2xx THEN Finish(s1, "HTTPStatusError")
                  ELSE JsonBranch(s1, r)
             ELSE WafBranch(s1, r)

\* One pass of the for loop: client.request, raise_for_status, then the
\* content type decides.
Attempt(st, r) ==
    LET s1 == [st EXCEPT !.resps = Append(@, r),
                         !.events = Append(@, "request")]
    IN  IF r.conn THEN Finish(s1, "RequestError")
        ELSE IF ~r.ok2xx THEN Finish(s1, "HTTPStatusError")
        ELSE IF r.jsonct THEN JsonBranch(s1, r)
        ELSE WafBranch(s1, r)

RECURSIVE RunScript(_, _)
\* The call run to its end against the responses of script, in order.
RunScript(st, script) ==
    IF st.outcome # "running" \/ script = <<>> THEN st
    ELSE RunScript(Attempt(st, Head(script)), Tail(script))

Waf == [conn |-> FALSE, ok2xx |-> TRUE, jsonct |-> FALSE, parses |-> FALSE,
        retry_after |-> NoHeader, jitter |-> 100 + RETRY_JITTER_PCT]

RECURSIVE Repeat(_, _)
Repeat(x, n) == IF n = 0 THEN <<>> ELSE <<x>> \o Repeat(x, n - 1)

\* Every way a call can go: k rate-limit pages, then the response that ends it.
CallScripts ==
    {s \in {Repeat(Waf, k) \o <<r>> : k \in 0..(MAX_RETRIES - 1), r \in Responses} :
        RunScript(ReqStart, s).outcome # "running"}

\* "ok", or the exception the caller sees: HTTPStatusError, RequestError
\* (both httpx), JSONError and Exhausted (both RuntimeError), ValueError (from
\* time.sleep).
CallOutcomes == {RunScript(ReqStart, s).outcome : s \in CallScripts}

IsTransportError(o) == o \in {"HTTPStatusError", "RequestError"}

ReqIdle == [ReqStart EXCEPT !.outcome = "idle"]

\* _request_with_retry is entered.
ReqCall ==
    /\ rq.outcome # "running"
    /\ rq' = ReqStart
    /\ UNCHANGED crawlVars

\* The server's answer to the attempt in progress arrives.
ReqAttempt ==
    /\ rq.outcome = "running"
    /\ \E r \in Responses : rq' = Attempt(rq, r)
    /\ UNCHANGED crawlVars

----------------------------------------------------------------------------
(* The checkpoint store: SyncManifest (scraper/models.py) and its file      *)
(* (scraper/storage.py)                                                      *)

\* SyncManifest(): articles is a dict, kept here in insertion order as pairs
\* of key (the stringified article id) and entry.
EmptyManifest == [user_id |-> 0, last_sync |-> 0, articles |-> <<>>]

\* str(article_id)
Key(id) == ToString(id)

\* int(article_id_str)
IdOfKey(k) == CHOOSE n \in Ids : ToString(n) = k

\* has_article looking the integer id up among the string keys.
has_article_int_key(m, id) == FALSE

has_article(m, id) ==
    \E k \in 1..Len(m.articles) : m.articles[k].key = Key(id)

\* self.articles = {str(entry.article_id): entry}: the entries before it gone.
add_article_alone(m, e) ==
    [m EXCEPT !.articles = <<[key |-> Key(e.article_id), entry |-> e]>>]

\* self.articles[str(entry.article_id)] = entry
add_article(m, e) ==
    IF has_article(m, e.article_id)
    THEN [m EXCEPT !.articles =
            [k \in 1..Len(@) |->
                IF @[k].key = Key(e.article_id)
                THEN [key |-> Key(e.article_id), entry |-> e] ELSE @[k]]]
    ELSE [m EXCEPT !.articles =
            Append(@, [key |-> Key(e.article_id), entry |-> e])]

KnownIds(m) == {m.articles[k].entry.article_id : k \in 1..Len(m.articles)}

PendingIds(m) ==
    {m.articles[k].entry.article_id :
        k \in {j \in 1..Len(m.articles) : ~m.articles[j].entry.comments_fetched}}

EntryOf(m, id) ==
    (CHOOSE p \in {m.articles[k] : k \in 1..Len(m.articles)} : p.key = Key(id)).entry

\* build_article_path with the id left out of the file name.
build_article_path_no_id(id) == "article.md"

\* build_article_path: the id is part of the file name.
build_article_path(id) == ToString(id) \o ".md"

\* The integers that occur in a manifest: user ids, article ids, and the
\* times of save (the number of the run stands for datetime.now()).
Numbers == 0..(ConfigUserId + 1 + MaxId + MaxRuns + MaxBatch)

\* The JSON literal of an integer, and the integer of a literal.
NumberText(n) == ToString(n)
NumberOf(t) == CHOOSE n \in Numbers : NumberText(n) = t

\* The JSON literal of a bool, and the bool of a literal.
BoolText(b) == IF b THEN "true" ELSE "false"
BoolOf(t) == t = "true"

\* manifest.model_dump_json: the object with its three members, articles an
\* object of one member per key, in dict order, each entry an object.
model_dump_json(m) ==
    [user_id |-> NumberText(m.user_id),
     last_sync |-> NumberText(m.last_sync),
     articles |->
        [k \in 1..Len(m.articles) |->
            [name |-> m.articles[k].key,
             value |-> [article_id |-> NumberText(m.articles[k].entry.article_id),
                        file_path |-> m.articles[k].entry.file_path,
                        comments_fetched |->
                            BoolText(m.articles[k].entry.comments_fetched)]]]]

\* model_validate with comments_fetched read as its default, True.
model_validate_default_flag(j) ==
    [user_id |-> NumberOf(j.user_id),
     last_sync |-> NumberOf(j.last_sync),
     articles |->
        [k \in 1..Len(j.articles) |->
            [key |-> j.articles[k].name,
             entry |-> [article_id |-> NumberOf(j.articles[k].value.article_id),
                        file_path |-> j.articles[k].value.file_path,
                        comments_fetched |-> TRUE]]]]

\* SyncManifest.model_validate(json.loads(text)) of a text that is a dumped
\* manifest: the members read back, each with its type.
model_validate(j) ==
    [user_id |-> NumberOf(j.user_id),
     last_sync |-> NumberOf(j.last_sync),
     articles |->
        [k \in 1..Len(j.articles) |->
            [key |-> j.articles[k].name,
             entry |-> [article_id |-> NumberOf(j.articles[k].value.article_id),
                        file_path |-> j.articles[k].value.file_path,
                        comments_fetched |->
                            BoolOf(j.articles[k].value.comments_fetched)]]]]

\* manifest.json: absent; complete, data the text of one model_dump_json;
\* torn, what a write that did not finish leaves (the file emptied by open()
\* or holding a prefix of the text), on which json.loads raises; invalid, JSON
\* that is not a manifest, on which model_validate raises; undecodable, bytes
\* that are not UTF-8, on which read_text raises.
NoText == model_dump_json(EmptyManifest)
NoFile == [kind |-> "absent", data |-> NoText]
Torn == [kind |-> "torn", data |-> NoText]
Invalid == [kind |-> "invalid", data |-> NoText]
Undecodable == [kind |-> "undecodable", data |-> NoText]

\* What reading, parsing and validating the file raises, "none" if nothing.
ReadRaises(d) ==
    CASE d.kind = "torn" -> "JSONDecodeError"
      [] d.kind = "invalid" -> "ValidationError"
      [] d.kind = "undecodable" -> "UnicodeDecodeError"
      [] OTHER -> "none"

\* The exception classes that are ValueError or derive from it.
ValueErrors ==
    {"ValueError", "JSONDecodeError", "ValidationError", "UnicodeDecodeError"}

\* An except clause for json.JSONDecodeError alone.
CaughtJsonOnly == {"JSONDecodeError"}

\* except (json.JSONDecodeError, ValueError)
Caught == {"JSONDecodeError"} \cup ValueErrors

\* One call of load_manifest: the exception that leaves it ("none" when it
\* returns) and the manifest returned: an empty one when the file is absent
\* or the exception is caught.
LoadCall(d) ==
    IF d.kind = "absent" THEN [raised |-> "none", value |-> EmptyManifest]
    ELSE IF ReadRaises(d) = "none"
         THEN [raised |-> "none", value |-> model_validate(d.data)]
    ELSE IF ReadRaises(d) \in Caught
         THEN [raised |-> "none", value |-> EmptyManifest]
    ELSE [raised |-> ReadRaises(d), value |-> EmptyManifest]

\* load_manifest as its callers see it.
load_manifest(d) == LoadCall(d).value

----------------------------------------------------------------------------
(* The remote API *)

Range(s) == {s[k] : k \in 1..Len(s)}

Min(a, b) == IF a < b THEN a ELSE b

RECURSIVE SeqsUpTo(_, _)
SeqsUpTo(S, n) ==
    IF n = 0 THEN {<<>>}
    ELSE LET shorter == SeqsUpTo(S, n - 1)
         IN  shorter \cup {Append(s, x) : s \in shorter, x \in S}

\* How often x occurs in s.
Count(s, x) == Cardinality({k \in 1..Len(s) : s[k] = x})

RECURSIVE Flatten(_)
\* The sequences of ss, one after the other.
Flatten(ss) == IF ss = <<>> THEN <<>> ELSE Head(ss) \o Flatten(Tail(ss))

\* The timelines the listing endpoint may serve; an id may occur twice.  The
\* code never compares two ids but for equality, so of the timelines that
\* differ by a renaming of the ids one is kept: the one whose ids first occur
\* in increasing order.
Timelines ==
    {tl \in SeqsUpTo(Ids, MaxItems) :
        \A k \in 1..Len(tl) :
            tl[k] = 1 \/ \E j \in 1..(k - 1) : tl[j] = tl[k] - 1}

\* The maxPage of a listing response is the server's word: it can be ahead of
\* the pages the server then serves, by this many pages.
MaxPageSlack == {0, 1}

\* GET /statuses/original/timeline.json?page&count: the page-th slice of the
\* timeline and the number of pages the server reports.
ListingPage(tl, page, more) ==
    [articles |-> SubSeq(tl, (page - 1) * PageSize + 1, Min(page * PageSize, Len(tl))),
     maxPage  |-> (Len(tl) + PageSize - 1) \div PageSize + more]

\* One page of /statuses/comments.json as fetch_comments sees it: the outcome
\* of the call, and on "ok" the comments (user id, creation time) and maxPage.
OtherUser == ConfigUserId + 1
\* comment.user is None
NoUser == 0
AuthorComment == [user |-> ConfigUserId, created_at |-> 1]
OtherComment == [user |-> OtherUser, created_at |-> 1]

CommentPages ==
    [outcome : {"ok"}, comments : {<<>>, <<AuthorComment>>, <<OtherComment>>},
     maxPage : {1, 2}]
    \cup [outcome : CallOutcomes \ {"ok"}, comments : {<<>>}, maxPage : {1}]

\* The comment pages one retrieval may meet: page 1, and page 2 when asked for.
CommentScenarios ==
    {<<p>> : p \in CommentPages} \cup
    {<<p, q>> : p \in {x \in CommentPages : x.outcome = "ok" /\ x.maxPage = 2
                                            /\ x.comments # <<>>},
                q \in {x \in CommentPages : x.maxPage = 1}}

\* comment.user and comment.user.id == author_id
IsAuthor(c, author_id) == c.user # NoUser /\ c.user = author_id

\* author_comments left in the order of arrival.
SortSkipped(s) == s

RECURSIVE SortByCreated(_)
\* list.sort(key=created_at): stable, ascending.
SortByCreated(s) ==
    IF Len(s) <= 1 THEN s
    ELSE LET rest == SortByCreated(Tail(s))
             x == Head(s)
             before == SelectSeq(rest, LAMBDA c : c.created_at < x.created_at)
             after == SelectSeq(rest, LAMBDA c : c.created_at >= x.created_at)
         IN  before \o <<x>> \o after

RECURSIVE CommentLoopMaxPageOnly(_, _, _, _)
\* The while loop ending on maxPage alone, an empty page not looked at.
CommentLoopMaxPageOnly(pages, author_id, p, acc) ==
    LET resp == IF p <= Len(pages) THEN pages[p]
                ELSE [outcome |-> "ok", comments |-> <<>>, maxPage |-> p]
    IN  IF resp.outcome # "ok"
        THEN [ok |-> FALSE, err |-> resp.outcome, comments |-> <<>>, requested |-> p]
        ELSE LET acc2 == acc \o SelectSeq(resp.comments,
                                          LAMBDA c : IsAuthor(c, author_id))
             IN  IF p >= resp.maxPage
                 THEN [ok |-> TRUE, err |-> "ok",
                       comments |-> SortByCreated(acc2), requested |-> p]
                 ELSE CommentLoopMaxPageOnly(pages, author_id, p + 1, acc2)

RECURSIVE CommentLoop(_, _, _, _)
\* The while loop of fetch_all_author_comments from page p on, acc being
\* author_comments so far.  A failed fetch_comments raises out of it.
CommentLoop(pages, author_id, p, acc) ==
    LET resp == IF p <= Len(pages) THEN pages[p]
                ELSE [outcome |-> "ok", comments |-> <<>>, maxPage |-> p]
    IN  IF resp.outcome # "ok"
        THEN [ok |-> FALSE, err |-> resp.outcome, comments |-> <<>>, requested |-> p]
        ELSE LET acc2 == acc \o SelectSeq(resp.comments,
                                          LAMBDA c : IsAuthor(c, author_id))
             IN  IF p >= resp.maxPage \/ resp.comments = <<>>
                 THEN [ok |-> TRUE, err |-> "ok",
                       comments |-> SortByCreated(acc2), requested |-> p]
                 ELSE CommentLoop(pages, author_id, p + 1, acc2)

fetch_all_author_comments(pages, author_id) ==
    CommentLoop(pages, author_id, 1, <<>>)

\* Comments of the author, of another user and of no user, at two creation
\* times; the pages of a comment thread hold up to MaxPerPage of them.
MaxPerPage == 2
AnyComments == [user : {ConfigUserId, OtherUser, NoUser}, created_at : 1..2]
AnyPages ==
    [outcome : {"ok"}, comments : SeqsUpTo(AnyComments, MaxPerPage), maxPage : {1, 2}]

\* The threads a retrieval is applied to: one page, or two.
AnyThreads ==
    {<<p>> : p \in {x \in AnyPages : x.maxPage = 1 \/ x.comments = <<>>}} \cup
    {<<p, q>> : p \in {x \in AnyPages : x.maxPage = 2 /\ x.comments # <<>>},
                q \in AnyPages}

NoCm == [called |-> FALSE, pages |-> <<>>, author_id |-> NoUser,
         result |-> [ok |-> FALSE, err |-> "ok", comments |-> <<>>, requested |-> 0]]

\* fetch_all_author_comments is called on a thread, for an author.
CmCall ==
    /\ ~cm.called
    /\ \E ps \in AnyThreads, a \in {ConfigUserId, OtherUser} :
          cm' = [called |-> TRUE, pages |-> ps, author_id |-> a,
                 result |-> fetch_all_author_comments(ps, a)]
    /\ UNCHANGED <<tx, rq, remote, max_pages, disk, files, flushed, run, hist>>

\* The ways one retrieval of an article's remarks can end.
CommentResults(author_id) ==
    {fetch_all_author_comments(ps, author_id) : ps \in CommentScenarios}

----------------------------------------------------------------------------
(* The pacer: AdaptiveDelay, scraper/crawler.py.  Seconds are kept in        *)
(* thousandths, products rounded down.                                       *)

Max(a, b) == IF a > b THEN a ELSE b

\* DEFAULT_REQUEST_DELAY = 3.0
DEFAULT_REQUEST_DELAY_MS == 3000
\* min_delay = 3.0 and max_delay = 120.0, the defaults of __init__ (no caller
\* passes others)
MIN_DELAY_MS == 3000
MAX_DELAY_MS == 120000

\* config.request_delay as the configuration file can give it: 0.5 s, 1 s,
\* the default, 40 s, 50 s.
RequestDelays == {500, 1000, DEFAULT_REQUEST_DELAY_MS, 40000, 50000}

\* No pacer constructed yet.
NoPacer == [current |-> 0, min_delay |-> 0, max_delay |-> 0]

\* AdaptiveDelay.__init__: current = base, as given.
AdaptiveDelay(base) ==
    [current |-> base, min_delay |-> MIN_DELAY_MS, max_delay |-> MAX_DELAY_MS]

\* AdaptiveDelay.success: current = max(min_delay, current * 0.9)
success(d) == [d EXCEPT !.current = Max(d.min_delay, (d.current * 9) \div 10)]

\* AdaptiveDelay.failure: current = min(max_delay, current * 2)
failure(d) == [d EXCEPT !.current = Min(d.max_delay, d.current * 2)]

----------------------------------------------------------------------------
(* The crawl orchestrator: scraper/crawler.py *)

NoResp == [articles |-> <<>>, maxPage |-> 0]
NoFull == [id |-> 0, author_comments |-> <<>>, comments_fetch_failed |-> FALSE]

\* The locals of a run.  pc is the place the run has reached:
\*   sync:     list -> (fetch -> save -> add)* -> flush -> flush_write -> list | done
\*   backfill: bf_fetch -> bf_apply -> flush -> flush_write -> bf_fetch | done
\* aborted: an exception left the function; crashed: the process was killed.
FreshRun ==
    [mode |-> "idle", pc |-> "idle", manifest |-> EmptyManifest,
     page |-> 0, resp |-> NoResp, new_on_page |-> <<>>, i |-> 0,
     downloaded |-> 0, full |-> NoFull,
     pending |-> <<>>, comments |-> <<>>, backfilled |-> 0,
     error |-> "none", result |-> 0, delay |-> NoPacer]

Stopped == {"idle", "done", "aborted", "crashed"}

NoErr == [call |-> "none", outcome |-> "ok"]

\* What a run remembers of the run before it: whether that was a full sync
\* that returned, and the ids it skipped and left out of the checkpoint.
NoPrev == [syncDone |-> FALSE, skipped |-> {}]

\* What the history holds when a run starts on manifest m.
StartHist(m) ==
    [runs |-> hist.runs + 1, ev |-> "start",
     calls |-> {}, err |-> NoErr, before |-> EmptyManifest,
     startIds |-> KnownIds(m), startPending |-> PendingIds(m),
     listed |-> {}, fetched |-> {}, failed |-> {}, saved |-> {}, added |-> {},
     tried |-> {}, reqs |-> <<>>, trace |-> <<>>, fb |-> "none",
     long_pauses |-> 0, item_hit |-> FALSE, cpages |-> <<>>,
     lists |-> 0, top |-> 0,
     prev |-> IF run.mode = "sync" /\ run.pc = "done"
              THEN [syncDone |-> TRUE,
                    skipped |-> hist.failed \ KnownIds(run.manifest)]
              ELSE NoPrev]

InitHist ==
    [runs |-> 0, ev |-> "none",
     calls |-> {}, err |-> NoErr, before |-> EmptyManifest,
     startIds |-> {}, startPending |-> {},
     listed |-> {}, fetched |-> {}, failed |-> {}, saved |-> {}, added |-> {},
     tried |-> {}, reqs |-> <<>>, trace |-> <<>>, fb |-> "none",
     long_pauses |-> 0, item_hit |-> FALSE, cpages |-> <<>>,
     lists |-> 0, top |-> 0,
     prev |-> NoPrev]

\* The history after a call of one kind that ended with outcome o: calls is
\* the kinds of call the run has made, err the call that failed in the last
\* step of the run (NoErr when none did).
Noted(h, call, o) ==
    [h EXCEPT !.calls = @ \cup {call},
              !.err = IF o = "ok" THEN @ ELSE [call |-> call, outcome |-> o]]

\* The history at the start of a step: no call has failed in it yet, no
\* request was issued in it yet, nothing slept, the pacer not told anything,
\* no comment page asked for.
Step(h) ==
    [h EXCEPT !.err = NoErr, !.reqs = <<>>, !.trace = <<>>, !.fb = "none",
              !.cpages = <<>>]

\* A request of the run: the listing of a page; the detail of the item-th new
\* article of a page; the cpage-th page of its comments.
Req(kind, page, item, cpage) ==
    [kind |-> kind, page |-> page, item |-> item, cpage |-> cpage]

\* The requests one retrieval of remarks issues, pages 1 to n, each after the
\* one before it returned.
CommentRequests(page, item, n) ==
    [k \in 1..n |-> Req("comments", page, item, k)]

\* The history with requests issued, in order, after those of the step so far.
Issued(h, rs) == [h EXCEPT !.reqs = @ \o rs]

\* BATCH_PAUSE_EVERY = 5
BATCH_PAUSE_EVERY == 5

\* if downloaded > 0 and downloaded % BATCH_PAUSE_EVERY == 0 (backfilled in a
\* backfill): the long pause is due.
BatchDue(n) == n > 0 /\ n % BATCH_PAUSE_EVERY = 0

\* The top of the item loop with delay.wait() left out.
PacingNoWait(n, page, item) ==
    IF BatchDue(n) THEN <<Req("batch_pause", page, item, 0)>> ELSE <<>>

\* The top of the item loop, before the item is fetched: the long pause
\* (time.sleep of 30 to 60 s) when it is due, then delay.wait().
Pacing(n, page, item) ==
    (IF BatchDue(n) THEN <<Req("batch_pause", page, item, 0)>> ELSE <<>>)
        \o <<Req("wait", page, item, 0)>>

\* What one retrieval of remarks does, pages 1 to n: the requests, and
\* time.sleep(request_delay) before each page but the first.
CommentTrace(page, item, n) ==
    [j \in 1..(2 * n - 1) |->
        IF j % 2 = 1 THEN Req("comments", page, item, (j + 1) \div 2)
        ELSE Req("sleep", page, item, 0)]

\* The history with what the step did, in order, after what it did so far:
\* requests, pacer waits, long pauses, sleeps of request_delay.
Traced(h, evs) == [h EXCEPT !.trace = @ \o evs]

\* The history after the top of the item loop: the long pauses taken since
\* the last item that went through are counted.
Paced(h, n, page, item) ==
    [Traced(h, Pacing(n, page, item)) EXCEPT
        !.long_pauses = IF BatchDue(n) THEN @ + 1 ELSE @]

\* A call that ended this way was rate-limited to the end of its retries, or
\* got an HTTP error status.
IsHit(o) == o \in {"Exhausted", "HTTPStatusError"}

\* sync_articles up to the loop: load_manifest, user_id, counters.
SyncStart ==
    /\ run.pc \in Stopped
    /\ hist.runs < MaxRuns
    /\ LET m == [load_manifest(disk) EXCEPT !.user_id = ConfigUserId]
       IN  /\ run' = [FreshRun EXCEPT
                          !.mode = "sync", !.pc = "list",
                          !.manifest = m, !.page = 1,
                          !.delay = AdaptiveDelay(DEFAULT_REQUEST_DELAY_MS * 3)]
           /\ hist' = StartHist(m)
    /\ UNCHANGED <<tx, rq, cm, remote, max_pages, disk, files, flushed>>

\* The for loop with no save_manifest after it: straight on to the next page.
NextItemNoFlush(r) ==
    IF r.i < Len(r.new_on_page)
    THEN [r EXCEPT !.i = @ + 1, !.pc = "fetch"]
    ELSE [r EXCEPT !.i = 0, !.page = @ + 1, !.pc = "list"]

\* The for loop taking every other item.
NextItemSkipsOne(r) ==
    IF r.i + 1 < Len(r.new_on_page)
    THEN [r EXCEPT !.i = @ + 2, !.pc = "fetch"]
    ELSE [r EXCEPT !.i = 0, !.pc = "flush"]

\* The for loop moves to the next item of new_on_page, or ends.
NextItem(r) ==
    IF r.i < Len(r.new_on_page)
    THEN [r EXCEPT !.i = @ + 1, !.pc = "fetch"]
    ELSE [r EXCEPT !.i = 0, !.pc = "flush"]

\* An exception of the listing call handled like one of an item: the page is
\* taken as empty.
ListFailedSkipsPage(r, o) ==
    [r EXCEPT !.resp = NoResp, !.new_on_page = <<>>, !.i = 0, !.pc = "flush"]

\* The listing call raised: nothing in sync_articles catches it.
ListFailed(r, o) == [r EXCEPT !.pc = "aborted", !.error = o]

\* Top of the while loop: fetch_article_list and new_on_page.
SyncList ==
    /\ run.mode = "sync" /\ run.pc = "list"
    /\ \E o \in CallOutcomes, more \in MaxPageSlack :
        IF o = "ok"
        THEN LET resp == ListingPage(remote, run.page, more)
                 new == SelectSeq(resp.articles,
                                  LAMBDA a : ~has_article(run.manifest, a))
             IN  /\ run' = [run EXCEPT !.resp = resp, !.new_on_page = new,
                                       !.i = IF new = <<>> THEN 0 ELSE 1,
                                       !.pc = IF new = <<>> THEN "flush" ELSE "fetch"]
                 /\ hist' = [Traced(Issued(Noted(Step(hist), "list", o),
                                           <<Req("list", run.page, 0, 0)>>),
                                    <<Req("list", run.page, 0, 0)>>) EXCEPT
                                !.ev = "listed", !.item_hit = FALSE,
                                !.lists = @ + 1, !.top = Max(@, resp.maxPage),
                                !.listed = @ \cup Range(resp.articles)]
        ELSE /\ run' = ListFailed(run, o)
             /\ hist' = [Traced(Issued(Noted(Step(hist), "list", o),
                                       <<Req("list", run.page, 0, 0)>>),
                                <<Req("list", run.page, 0, 0)>>)
                            EXCEPT !.ev = "list_failed", !.item_hit = FALSE,
                                   !.lists = @ + 1]
    /\ UNCHANGED <<tx, rq, cm, remote, max_pages, disk, files, flushed>>

\* The except clauses with the entry added all the same.
ItemFailedButAdded(r, id) ==
    NextItem([r EXCEPT !.manifest = add_article(@,
                [article_id |-> id, file_path |-> build_article_path(id),
                 comments_fetched |-> FALSE])])

\* The except clauses of the item loop: log, delay.failure(), next item.
ItemFailed(r, id) == NextItem([r EXCEPT !.delay = failure(@)])

\* How the comment pages 1 to n of a retrieval ended, in the order they were
\* asked for.
PageOutcomes(ps, n) ==
    [k \in 1..n |-> IF k <= Len(ps) THEN ps[k].outcome ELSE "ok"]

\* The ways the retrieval of an article's remarks can go in a full sync: what
\* fetch_all_author_comments gives, and how each page asked for ended.
SyncRemarks ==
    {[result |-> fetch_all_author_comments(ps, ConfigUserId),
      pages |-> PageOutcomes(ps, fetch_all_author_comments(ps, ConfigUserId).requested)] :
        ps \in CommentScenarios}

\* The except clause of _fetch_full_article keeping remarks of the pages
\* fetched before the failure.
RemarksFailedKeepsRemarks(id) ==
    [id |-> id, author_comments |-> <<AuthorComment>>,
     comments_fetch_failed |-> TRUE]

\* The except clause of _fetch_full_article letting the item through as if
\* its remarks had been fetched.
RemarksFailedFlagTrue(id) ==
    [id |-> id, author_comments |-> <<>>, comments_fetch_failed |-> FALSE]

\* The except clause of _fetch_full_article: no remarks, and the flag.
RemarksFailed(id) ==
    [id |-> id, author_comments |-> <<>>, comments_fetch_failed |-> TRUE]

\* One item of the page: the pauses, then _fetch_full_article (detail,
\* transform, remarks).
SyncFetch ==
    /\ run.mode = "sync" /\ run.pc = "fetch"
    /\ LET id == run.new_on_page[run.i]
       IN \E d \in CallOutcomes :
            LET h0 == Paced(Step(hist), run.downloaded, run.page, run.i)
                h1 == [Traced(Issued(Noted(h0, "detail", d),
                                     <<Req("detail", run.page, run.i, 0)>>),
                              <<Req("detail", run.page, run.i, 0)>>) EXCEPT
                          !.fetched = @ \cup {id}, !.item_hit = IsHit(d)]
                \* time.sleep(config.request_delay) after the detail
                h2 == Traced(h1, <<Req("sleep", run.page, run.i, 0)>>)
            IN  IF d # "ok"
                THEN /\ run' = ItemFailed(run, id)
                     /\ hist' = [h1 EXCEPT !.ev = "skipped", !.fb = "failure",
                                           !.failed = @ \cup {id}]
                ELSE \/ \* detail.get or html_to_markdown raises
                        /\ run' = ItemFailed(run, id)
                        /\ hist' = [h2 EXCEPT !.ev = "skipped", !.fb = "failure",
                                              !.failed = @ \cup {id}]
                     \/ \E rm \in SyncRemarks :
                        LET c == rm.result
                        IN
                        /\ run' = [run EXCEPT
                              !.full = IF c.ok
                                       THEN [id |-> id,
                                             author_comments |-> c.comments,
                                             comments_fetch_failed |-> FALSE]
                                       ELSE RemarksFailed(id),
                              !.pc = "save"]
                        /\ hist' = [Traced(Issued(Noted(h2, "comments", c.err),
                                                  CommentRequests(run.page, run.i,
                                                                  c.requested)),
                                           CommentTrace(run.page, run.i,
                                                        c.requested))
                                       EXCEPT !.ev = "fetched",
                                              !.item_hit = IsHit(c.err),
                                              !.cpages = rm.pages]
    /\ UNCHANGED <<tx, rq, cm, remote, max_pages, disk, files, flushed>>

\* _format_article: the body, and a remarks section when there are remarks.
FormatArticle(full) ==
    [article_id |-> full.id, complete |-> TRUE,
     sections |-> IF full.author_comments # <<>> THEN <<"sync">> ELSE <<>>]

\* path.write_text cut short: the file was opened, which empties it, and the
\* content did not get written.
CutShort(id) == [article_id |-> id, complete |-> FALSE, sections |-> <<>>]

\* save_article: the file is written, or the write raises.
SyncSave ==
    /\ run.mode = "sync" /\ run.pc = "save"
    /\ LET id == run.full.id
       IN \E ok \in BOOLEAN :
            IF ok
            THEN /\ files' = (build_article_path(id) :> FormatArticle(run.full))
                             @@ files
                 /\ run' = [run EXCEPT !.pc = "add"]
                 /\ hist' = [Step(hist) EXCEPT !.ev = "saved", !.saved = @ \cup {id}]
            ELSE /\ files' = files
                 /\ run' = ItemFailed(run, id)
                 /\ hist' = [Step(hist) EXCEPT !.ev = "skipped", !.fb = "failure",
                                               !.failed = @ \cup {id}]
    /\ UNCHANGED <<tx, rq, cm, remote, max_pages, disk, flushed>>

\* manifest.add_article, downloaded += 1, delay.success().
SyncAdd ==
    /\ run.mode = "sync" /\ run.pc = "add"
    /\ LET id == run.full.id
           e == [article_id |-> id, file_path |-> build_article_path(id),
                 comments_fetched |-> ~run.full.comments_fetch_failed]
       IN  /\ run' = NextItem([run EXCEPT !.manifest = add_article(@, e),
                                          !.downloaded = @ + 1,
                                          !.delay = success(@)])
           /\ hist' = [Step(hist) EXCEPT !.ev = "added", !.fb = "success",
                                         !.long_pauses = 0,
                                         !.added = @ \cup {id}]
    /\ UNCHANGED <<tx, rq, cm, remote, max_pages, disk, files, flushed>>

\* Pagination with maxPage not looked at: the loop ends on an empty page or
\* on the cap.
PaginateIgnoresMaxPage(r) ==
    IF r.resp.articles = <<>>
    THEN [r EXCEPT !.pc = "done", !.result = r.downloaded]
    ELSE IF max_pages # 0 /\ r.page >= max_pages
    THEN [r EXCEPT !.pc = "done", !.result = r.downloaded]
    ELSE [r EXCEPT !.page = @ + 1, !.pc = "list"]

\* Pagination with the page cap not looked at.
PaginateNoCap(r) ==
    IF r.page >= r.resp.maxPage \/ r.resp.articles = <<>>
    THEN [r EXCEPT !.pc = "done", !.result = r.downloaded]
    ELSE [r EXCEPT !.page = @ + 1, !.pc = "list"]

\* The end of one pass of the while loop, after save_manifest: the two
\* breaks, or page += 1.
Paginate(r) ==
    IF r.page >= r.resp.maxPage \/ r.resp.articles = <<>>
    THEN [r EXCEPT !.pc = "done", !.result = r.downloaded]
    ELSE IF max_pages # 0 /\ r.page >= max_pages
    THEN [r EXCEPT !.pc = "done", !.result = r.downloaded]
    ELSE [r EXCEPT !.page = @ + 1, !.pc = "list"]

\* The for loop of backfill_comments left after one entry.
NextPendingEnds(r) == [r EXCEPT !.i = 0, !.pc = "done", !.result = r.backfilled]

\* The for loop of backfill_comments moves to the next pending entry, or ends.
NextPending(r) ==
    IF r.i < Len(r.pending)
    THEN [r EXCEPT !.i = @ + 1, !.pc = "bf_fetch"]
    ELSE [r EXCEPT !.i = 0, !.pc = "done", !.result = r.backfilled]

\* save_manifest, first half: last_sync is set and write_text opens
\* manifest.json for writing, which empties it.
SaveOpen ==
    /\ run.pc = "flush"
    /\ run' = [run EXCEPT !.manifest.last_sync = hist.runs, !.pc = "flush_write"]
    /\ disk' = Torn
    /\ hist' = [Step(hist) EXCEPT !.ev = "save_open", !.item_hit = FALSE,
                                  !.before = load_manifest(disk)]
    /\ UNCHANGED <<tx, rq, cm, remote, max_pages, files, flushed>>

\* save_manifest, second half: the text is written and the file closed; the
\* caller goes on (sync: pagination; backfill: backfilled += 1,
\* delay.success(), next entry).
SaveWrite ==
    /\ run.pc = "flush_write"
    /\ disk' = [kind |-> "complete", data |-> model_dump_json(run.manifest)]
    /\ flushed' = run.manifest
    /\ run' = IF run.mode = "sync" THEN Paginate(run)
              ELSE NextPending([run EXCEPT !.backfilled = @ + 1,
                                           !.delay = success(@)])
    /\ hist' = [Step(hist) EXCEPT
                    !.ev = "flushed", !.before = EmptyManifest,
                    !.fb = IF run.mode = "sync" THEN "none" ELSE "success",
                    !.long_pauses = IF run.mode = "sync" THEN @ ELSE 0]
    /\ UNCHANGED <<tx, rq, cm, remote, max_pages, files>>

\* The keys of all the entries, in dict order.
PendingKeysAll(m) == [k \in 1..Len(m.articles) |-> m.articles[k].key]

\* The keys of the entries whose comments_fetched is false, in dict order.
PendingKeys(m) ==
    LET p == SelectSeq(m.articles, LAMBDA a : ~a.entry.comments_fetched)
    IN  [k \in 1..Len(p) |-> p[k].key]

\* backfill_comments up to the loop: load_manifest and pending.
BackfillStart ==
    /\ run.pc \in Stopped
    /\ hist.runs < MaxRuns
    /\ LET m == load_manifest(disk)
           pending == PendingKeys(m)
       IN  /\ run' = IF pending = <<>>
                     THEN [FreshRun EXCEPT !.mode = "backfill", !.pc = "done",
                                           !.manifest = m]
                     ELSE [FreshRun EXCEPT
                              !.mode = "backfill", !.pc = "bf_fetch",
                              !.manifest = m, !.pending = pending, !.i = 1,
                              !.delay = AdaptiveDelay(DEFAULT_REQUEST_DELAY_MS * 3)]
           /\ hist' = StartHist(m)
    /\ UNCHANGED <<tx, rq, cm, remote, max_pages, disk, files, flushed>>

\* One pending entry: the pauses, then fetch_all_author_comments; a failure
\* is logged and the loop continues.
BackfillFetch ==
    /\ run.mode = "backfill" /\ run.pc = "bf_fetch"
    /\ \E c \in CommentResults(run.manifest.user_id) :
        LET h0 == Traced(Issued(Noted(Paced(Step(hist), run.backfilled, 0, run.i),
                                      "comments", c.err),
                                CommentRequests(0, run.i, c.requested)),
                         CommentTrace(0, run.i, c.requested))
            h1 == [h0 EXCEPT !.tried = @ \cup {IdOfKey(run.pending[run.i])}]
        IN  IF c.ok
            THEN /\ run' = [run EXCEPT !.comments = c.comments, !.pc = "bf_apply"]
                 /\ hist' = [h1 EXCEPT !.ev = "bf_fetched"]
            ELSE /\ run' = NextPending([run EXCEPT !.delay = failure(@)])
                 /\ hist' = [h1 EXCEPT !.ev = "bf_failed", !.fb = "failure"]
    /\ UNCHANGED <<tx, rq, cm, remote, max_pages, disk, files, flushed>>

\* append_comments_to_article: a remarks section is added at the end of the
\* file, the content before it kept.
append_comments_to_article(fs, path, comments) ==
    [fs EXCEPT ![path].sections = Append(@, "backfill")]

\* The entry taken out of the manifest.
MarkFetchedDrops(m, key) ==
    [m EXCEPT !.articles = SelectSeq(@, LAMBDA a : a.key # key)]

\* The flag left as it was.
MarkFetchedNot(m, key) == m

\* entry.comments_fetched = True, the entry being the manifest's own.
MarkFetched(m, key) ==
    [m EXCEPT !.articles =
        [k \in 1..Len(@) |->
            IF @[k].key = key
            THEN [@[k] EXCEPT !.entry.comments_fetched = TRUE]
            ELSE @[k]]]

\* After a successful retrieval: the section is appended when there are
\* remarks, and entry.comments_fetched = True.
BackfillApply ==
    /\ run.mode = "backfill" /\ run.pc = "bf_apply"
    /\ LET key == run.pending[run.i]
           path == EntryOf(run.manifest, IdOfKey(key)).file_path
       IN  /\ files' = IF run.comments # <<>>
                       THEN append_comments_to_article(files, path, run.comments)
                       ELSE files
           /\ run' = [run EXCEPT !.manifest = MarkFetched(@, key),
                                  !.pc = "flush"]
           /\ hist' = [Step(hist) EXCEPT !.ev = "bf_applied"]
    /\ UNCHANGED <<tx, rq, cm, remote, max_pages, disk, flushed>>

\* The process is killed.  Memory is lost; the files stay as they are, a
\* manifest.json whose write was under way torn, and so the Markdown file
\* when the process is killed within save_article.
Crash ==
    /\ run.pc \notin Stopped
    /\ run' = [FreshRun EXCEPT !.mode = run.mode, !.pc = "crashed"]
    /\ disk' = disk
    /\ \/ files' = files
       \/ /\ run.mode = "sync" /\ run.pc = "save"
          /\ files' = (build_article_path(run.full.id) :> CutShort(run.full.id))
                          @@ files
    /\ hist' = [InitHist EXCEPT !.runs = hist.runs, !.ev = "crash",
                                !.prev = hist.prev]
    /\ UNCHANGED <<tx, rq, cm, remote, max_pages, flushed>>

----------------------------------------------------------------------------
(* File names: sanitize_filename, scraper/storage.py.  A string is the       *)
(* sequence of its characters.                                               *)

MaxName == 3        \* characters of a title handed to sanitize_filename

\* The characters of a title: a letter, a CJK character (written "zh"), the
\* hyphen, the underscore, the two path separators, the space.
NameChars == {"a", "zh", "-", "_", "/", "\\", " "}
PathSeparators == {"/", "\\"}

\* \w matches letters, digits and the underscore (CJK characters are letters).
IsWord(c) == c \in {"a", "zh", "_"}

\* The class [^\w\u4e00-\u9fff\-] does not match c.
IsKept(c) == IsWord(c) \/ c = "zh" \/ c = "-"

\* The first re.sub with nothing replaced.
ReplaceNone(name) == name

\* re.sub(r'[^\w\u4e00-\u9fff\-]', '_', name)
ReplaceUnsafe(name) ==
    [k \in 1..Len(name) |-> IF IsKept(name[k]) THEN name[k] ELSE "_"]

RECURSIVE Collapse(_)
\* re.sub(r'_+', '_', safe): a run of underscores becomes one.
Collapse(t) ==
    IF Len(t) <= 1 THEN t
    ELSE IF t[1] = "_" /\ t[2] = "_" THEN Collapse(Tail(t))
    ELSE <<t[1]>> \o Collapse(Tail(t))

RECURSIVE LStrip(_, _)
\* str.lstrip(chars)
LStrip(t, chars) ==
    IF t # <<>> /\ t[1] \in chars THEN LStrip(Tail(t), chars) ELSE t

RECURSIVE RStrip(_, _)
\* str.rstrip(chars)
RStrip(t, chars) ==
    IF t # <<>> /\ t[Len(t)] \in chars
    THEN RStrip(SubSeq(t, 1, Len(t) - 1), chars) ELSE t

\* str.strip(chars)
Strip(t, chars) == RStrip(LStrip(t, chars), chars)

\* safe[:max_length] for a max_length that is not negative
Prefix(t, n) == SubSeq(t, 1, Min(n, Len(t)))

\* "untitled"
Untitled == <<"u", "n", "t", "i", "t", "l", "e", "d">>

\* sanitize_filename(name, max_length)
sanitize_filename(name, max_length) ==
    LET safe == Strip(Collapse(ReplaceUnsafe(name)), {"_"})
        cut == IF Len(safe) > max_length
               THEN RStrip(Prefix(safe, max_length), {"_"})
               ELSE safe
    IN  IF cut # <<>> THEN cut ELSE Untitled

\* max_length = 50, the default, with which build_article_path calls it
DEFAULT_MAX_LENGTH == 50

\* The titles, and the values of max_length a caller may pass.
Names == SeqsUpTo(NameChars, MaxName)
MaxLengths == 0..MaxName \cup {DEFAULT_MAX_LENGTH}

\* sanitize_filename is called.
SanitizeCall ==
    /\ tx = NoTx
    /\ \E name \in Names, ml \in MaxLengths :
          tx' = [fn |-> "sanitize_filename",
                 arg |-> [name |-> name, max_length |-> ml],
                 out |-> sanitize_filename(name, ml)]
    /\ UNCHANGED <<rq, cm, remote, max_pages, disk, files, flushed, run, hist>>

----------------------------------------------------------------------------
(* Body extraction: extract_article_html, scraper/content.py *)

\* What a page is to the two strategies.  tree: etree.HTML returns None,
\* raises etree.Error, or returns a tree; containers: the elements the XPath
\* matches, in document order, each by what etree.tostring gives for it (an
\* element serializes to its tags at least, never to the empty string);
\* script: the regular expression finds no SNB.data.current_status, finds one
\* json.loads rejects, or finds a JSON object, whose "text" and "description"
\* are text and description ("" when absent or empty).
ContainerHtmls == {"<div class=article__bd__detail>A</div>",
                   "<div class=article__bd__detail>B</div>"}
Pages ==
    [tree : {"none", "error", "ok"},
     containers : SeqsUpTo(ContainerHtmls, 2),
     script : {"nomatch", "badjson", "ok"},
     text : {"", "<p>T</p>"},
     description : {"", "D"}]

\* _extract_via_xpath
extract_via_xpath(page) ==
    IF page.tree # "ok" THEN ""
    ELSE IF page.containers = <<>> THEN ""
    ELSE page.containers[1]

\* _extract_via_script_json
extract_via_script_json(page) ==
    IF page.script # "ok" THEN ""
    ELSE IF page.text # "" THEN page.text ELSE page.description

\* The two strategies tried in the other order.
extract_script_first(page) ==
    IF extract_via_script_json(page) # "" THEN extract_via_script_json(page)
    ELSE IF extract_via_xpath(page) # "" THEN extract_via_xpath(page)
    ELSE ""

\* extract_article_html
extract_article_html(page) ==
    IF extract_via_xpath(page) # "" THEN extract_via_xpath(page)
    ELSE IF extract_via_script_json(page) # "" THEN extract_via_script_json(page)
    ELSE ""

\* extract_article_html is called.
ExtractCall ==
    /\ tx = NoTx
    /\ \E page \in Pages :
          tx' = [fn |-> "extract_article_html", arg |-> page,
                 out |-> extract_article_html(page)]
    /\ UNCHANGED <<rq, cm, remote, max_pages, disk, files, flushed, run, hist>>

----------------------------------------------------------------------------
(* HTML to Markdown: html_to_markdown, scraper/content.py.  A text is the    *)
(* sequence of its characters, a line is a text, an element is a record of   *)
(* its tag, text, tail, src and alt attributes and children.                 *)

MaxBlocks == 2      \* children of the body
MaxListKids == 2    \* children of a list
MaxRaw == 5         \* characters and tags of an input that does not parse

\* An lxml element.  A comment is a child like any other; its tag is not a
\* string (it is the function etree.Comment), written "#comment" here.
Node(tag, text, tail, src, alt, kids) ==
    [tag |-> tag, text |-> text, tail |-> tail, src |-> src, alt |-> alt,
     kids |-> kids]

\* isinstance(node.tag, str)
IsStrTag(n) == n.tag # "#comment"

\* The characters str.strip() removes.
Whitespace == {" ", "\n"}

RECURSIVE get_all_text(_)
\* _get_all_text: etree.tostring(node, method="text"), the text of the
\* element and of its descendants, tails included, and the tail of the
\* element itself (with_tail is left at its default); a comment gives its
\* tail alone.
get_all_text(n) ==
    (IF IsStrTag(n)
     THEN n.text \o Flatten([k \in 1..Len(n.kids) |-> get_all_text(n.kids[k])])
     ELSE <<>>) \o n.tail

\* src as written out: "https:" put before a src that starts with "//".
FixSrc(src) ==
    IF Len(src) >= 2 /\ src[1] = "/" /\ src[2] = "/"
    THEN <<"h", "t", "t", "p", "s", ":">> \o src
    ELSE src

\* f"![{alt}]({src})"
ImageMarkdown(alt, src) ==
    <<"!", "[">> \o alt \o <<"]", "(">> \o FixSrc(src) \o <<")">>

\* What _inline_to_markdown appends for one child of the paragraph, its tail
\* included.
InlinePart(child) ==
    LET inner == Strip(get_all_text(child), Whitespace)
        part == CASE ~IsStrTag(child) -> inner
                  [] child.tag = "b" ->
                        IF inner # <<>> THEN <<"*", "*">> \o inner \o <<"*", "*">>
                        ELSE <<>>
                  [] child.tag = "img" ->
                        IF child.src # <<>> THEN ImageMarkdown(child.alt, child.src)
                        ELSE <<>>
                  [] child.tag = "br" -> <<"\n">>
                  [] OTHER -> inner
    IN  part \o child.tail

\* _inline_to_markdown: the text of the paragraph, then its children.
inline_to_markdown(n) ==
    n.text \o Flatten([k \in 1..Len(n.kids) |-> InlinePart(n.kids[k])])

\* prefix = f"{i + 1}." if tag == "ol" else "-", i the index of the child
\* among all the children of the list.
ListPrefix(tag, i) == IF tag = "ol" THEN <<ToString(i + 1), ".">> ELSE <<"-">>

\* The for loop of the ul / ol branch: one line for each child that is an li.
ListLines(n) ==
    LET at == SelectSeq([k \in 1..Len(n.kids) |-> k],
                        LAMBDA k : n.kids[k].tag = "li")
    IN  [j \in 1..Len(at) |->
            ListPrefix(n.tag, at[j] - 1) \o <<" ">>
                \o Strip(get_all_text(n.kids[at[j]]), Whitespace)]

RECURSIVE walk_node(_)
\* _walk_node: the lines appended for an element.
walk_node(n) ==
    CASE ~IsStrTag(n) ->
            IF n.text # <<>> THEN <<n.text>> ELSE <<>>
      [] n.tag = "p" ->
            LET text == Strip(inline_to_markdown(n), Whitespace)
            IN  IF text # <<>> THEN << <<>>, text, <<>> >> ELSE <<>>
      [] n.tag = "br" -> << <<>> >>
      [] n.tag \in {"ul", "ol"} -> << <<>> >> \o ListLines(n) \o << <<>> >>
      [] n.tag = "img" ->
            IF n.src # <<>> THEN <<ImageMarkdown(n.alt, n.src)>> ELSE <<>>
      [] OTHER ->
            (IF n.text # <<>> THEN <<n.text>> ELSE <<>>)
            \o Flatten([k \in 1..Len(n.kids) |->
                    walk_node(n.kids[k])
                    \o (IF n.kids[k].tail # <<>> THEN <<n.kids[k].tail>>
                        ELSE <<>>)])

RECURSIVE WalkRaises(_)
\* The walk reaches a list with a comment among its children: _local_tag is
\* handed a tag that is not a string, and `"}" in tag` raises TypeError.
WalkRaises(n) ==
    /\ IsStrTag(n)
    /\ \/ /\ n.tag \in {"ul", "ol"}
          /\ \E k \in 1..Len(n.kids) : ~IsStrTag(n.kids[k])
       \/ /\ n.tag \notin {"p", "br", "ul", "ol", "img"}
          /\ \E k \in 1..Len(n.kids) : WalkRaises(n.kids[k])

RECURSIVE Join(_)
\* "\n".join(lines)
Join(lines) ==
    IF lines = <<>> THEN <<>>
    ELSE IF Len(lines) = 1 THEN lines[1]
    ELSE lines[1] \o <<"\n">> \o Join(Tail(lines))

\* The text left as it is.
CollapseNone(t) == t

RECURSIVE CollapseNewlines(_)
\* re.sub(r"\n{3,}", "\n\n", text): a run of three newlines or more becomes
\* two.
CollapseNewlines(t) ==
    IF Len(t) < 3 THEN t
    ELSE IF t[1] = "\n" /\ t[2] = "\n" /\ t[3] = "\n"
         THEN CollapseNewlines(Tail(t))
         ELSE <<t[1]>> \o CollapseNewlines(Tail(t))

\* _strip_tags: tags removed, entities decoded, the result stripped.
strip_tags(raw) ==
    LET untagged == SelectSeq(raw, LAMBDA c : c # "<p>")
        decoded == [k \in 1..Len(untagged) |->
                       IF untagged[k] = "&nbsp;" THEN " " ELSE untagged[k]]
    IN  Strip(decoded, Whitespace)

\* html_to_markdown of an input.  raw is html_content (what matters of it
\* when it parses is whether it is empty); parse is what etree.HTML does with
\* the wrapped content: returns a tree ("ok"), returns None, or raises
\* etree.Error; body is the wrapping div of the tree.  The result: the
\* exception raised ("none" when it returns), the lines of the walk, one
\* sequence for each child of the body, and the text returned.
html_to_markdown(inp) ==
    IF inp.raw = <<>>
    THEN [raised |-> "none", blocks |-> <<>>, text |-> <<>>]
    ELSE IF inp.parse # "ok"
    THEN [raised |-> "none", blocks |-> <<>>, text |-> strip_tags(inp.raw)]
    ELSE IF WalkRaises(inp.body)
    THEN [raised |-> "TypeError", blocks |-> <<>>, text |-> <<>>]
    ELSE [raised |-> "none",
          blocks |-> [k \in 1..Len(inp.body.kids) |-> walk_node(inp.body.kids[k])],
          text |-> Strip(CollapseNewlines(Join(walk_node(inp.body))), Whitespace)]

\* The inputs.  Images: src empty, protocol-relative, or other; alt empty or
\* not.
Srcs == {<<>>, <<"/", "/", "h">>, <<"h">>}
Alts == {<<>>, <<"a">>}
Imgs == {Node("img", <<>>, <<>>, src, alt, <<>>) : src \in Srcs, alt \in Alts}

\* The children of a paragraph: an image, bold text, an image inside a bold
\* element, a line break.
Inlines ==
    Imgs \cup {Node("b", <<"b">>, <<>>, <<>>, <<>>, <<>>),
               Node("br", <<>>, <<>>, <<>>, <<>>, <<>>)}
         \cup {Node("b", <<>>, <<>>, <<>>, <<>>, <<i>>) : i \in Imgs}

Paragraphs ==
    {Node("p", text, <<>>, <<>>, <<>>, kids) :
        text \in {<<>>, <<"a">>}, kids \in SeqsUpTo(Inlines, 1)}

\* The children of a list: an li of plain text, an li with markup in it, an
\* li followed by a newline, an element that is not an li, a comment.
ListKids ==
    {Node("li", <<"a">>, <<>>, <<>>, <<>>, <<>>),
     Node("li", <<"a">>, <<>>, <<>>, <<>>,
          <<Node("b", <<"b">>, <<>>, <<>>, <<>>, <<>>)>>),
     Node("li", <<"c">>, <<"\n">>, <<>>, <<>>, <<>>),
     Node("span", <<"s">>, <<>>, <<>>, <<>>, <<>>),
     Node("#comment", <<"x">>, <<>>, <<>>, <<>>, <<>>)}

Lists ==
    {Node(tag, <<>>, <<>>, <<>>, <<>>, kids) :
        tag \in {"ul", "ol"}, kids \in SeqsUpTo(ListKids, MaxListKids)}

\* Line breaks, followed by nothing, by a space, by three newlines.
Breaks ==
    {Node("br", <<>>, tail, <<>>, <<>>, <<>>) :
        tail \in {<<>>, <<" ">>, <<"\n", "\n", "\n">>}}

\* An image inside another element (a span).
Spans == {Node("span", <<>>, <<>>, <<>>, <<>>, <<i>>) : i \in Imgs}

Blocks == Paragraphs \cup Lists \cup Imgs \cup Breaks \cup Spans

\* The wrapping div and what the parser found in it.
Bodies ==
    {Node("div", text, <<>>, <<>>, <<>>, kids) :
        text \in {<<>>, <<" ">>}, kids \in SeqsUpTo(Blocks, MaxBlocks)}

EmptyBody == Node("div", <<>>, <<>>, <<>>, <<>>, <<>>)

\* html_content that does not parse: letters, newlines, tags, entities.
Raws == SeqsUpTo({"a", "\n", "<p>", "&nbsp;"}, MaxRaw) \ {<<>>}

\* html_content: empty; markup that parses to a body; text that does not
\* parse.
HtmlInputs ==
    {[raw |-> <<>>, parse |-> "ok", body |-> EmptyBody]}
    \cup {[raw |-> <<"<p>">>, parse |-> "ok", body |-> b] : b \in Bodies}
    \cup {[raw |-> r, parse |-> q, body |-> EmptyBody] :
             r \in Raws, q \in {"none", "error"}}

\* html_to_markdown is called.
MarkdownCall ==
    /\ tx = NoTx
    /\ \E inp \in HtmlInputs :
          tx' = [fn |-> "html_to_markdown", arg |-> inp,
                 out |-> html_to_markdown(inp)]
    /\ UNCHANGED <<rq, cm, remote, max_pages, disk, files, flushed, run, hist>>

----------------------------------------------------------------------------
(* Specifications *)

\* Runs of the crawler against one remote timeline, with crashes.
Init ==
    /\ tx = NoTx
    /\ rq = ReqIdle
    /\ cm = NoCm
    /\ remote \in Timelines
    /\ max_pages \in {0, 1}
    /\ disk = NoFile
    /\ files = <<>>
    /\ flushed = EmptyManifest
    /\ run = FreshRun
    /\ hist = InitHist

Next ==
    \/ SyncStart
    \/ SyncList
    \/ SyncFetch
    \/ SyncSave
    \/ SyncAdd
    \/ SaveOpen
    \/ SaveWrite
    \/ BackfillStart
    \/ BackfillFetch
    \/ BackfillApply
    \/ Crash

Spec == Init /\ [][Next]_vars

\* The orders in which a sync may have recorded articles: each id once.
RecordedOrders ==
    {s \in SeqsUpTo(Ids, MaxId) :
        s # <<>> /\ \A j, k \in 1..Len(s) : s[j] = s[k] => j = k}

\* The checkpoints an earlier full sync may have left: an entry for each
\* article it recorded, its remarks fetched or not.
SyncedManifests ==
    UNION {{[user_id |-> ConfigUserId, last_sync |-> 0,
             articles |-> [k \in 1..Len(s) |->
                 [key |-> Key(s[k]),
                  entry |-> [article_id |-> s[k],
                             file_path |-> build_article_path(s[k]),
                             comments_fetched |-> f[k]]]]] :
            f \in [1..Len(s) -> BOOLEAN]} : s \in RecordedOrders}

\* The files that sync left with checkpoint m: the file of each entry, with
\* a remarks section only when the remarks were fetched (and there were
\* some).
SyncedFiles(m) ==
    {fs \in [{build_article_path(id) : id \in KnownIds(m)} ->
                [article_id : Ids, complete : {TRUE},
                 sections : {<<>>, <<"sync">>}]] :
        \A id \in KnownIds(m) :
            /\ fs[build_article_path(id)].article_id = id
            /\ fs[build_article_path(id)].sections # <<>>
                  => EntryOf(m, id).comments_fetched}

\* Runs that are not killed, over an empty data directory or over what an
\* earlier full sync left.
InitAfterSync ==
    /\ tx = NoTx
    /\ rq = ReqIdle
    /\ cm = NoCm
    /\ remote \in Timelines
    /\ max_pages \in {0, 1}
    /\ \E m \in SyncedManifests :
          /\ disk = [kind |-> "complete", data |-> model_dump_json(m)]
          /\ flushed = m
          /\ files \in SyncedFiles(m)
    /\ run = FreshRun
    /\ hist = InitHist

InitNoCrash == Init \/ InitAfterSync

NextNoCrash ==
    \/ SyncStart
    \/ SyncList
    \/ SyncFetch
    \/ SyncSave
    \/ SyncAdd
    \/ SaveOpen
    \/ SaveWrite
    \/ BackfillStart
    \/ BackfillFetch
    \/ BackfillApply

SpecNoCrash == InitNoCrash /\ [][NextNoCrash]_vars

\* A step of a run under way.  The code is sequential and sleeps and requests
\* return: a run that is not killed takes its next step.
RunStep ==
    \/ SyncList
    \/ SyncFetch
    \/ SyncSave
    \/ SyncAdd
    \/ SaveOpen
    \/ SaveWrite
    \/ BackfillFetch
    \/ BackfillApply

\* Runs over an empty data directory that are not killed and go on.
SpecLive == Init /\ [][NextNoCrash]_vars /\ WF_vars(RunStep)

\* A timeline of MaxBatch articles, all different: enough for the long pause
\* to come due within one run.
LongTimeline == [k \in 1..MaxBatch |-> k]

\* One full sync against the long timeline, over an empty data directory.
InitBatch ==
    /\ tx = NoTx
    /\ rq = ReqIdle
    /\ cm = NoCm
    /\ remote = LongTimeline
    /\ max_pages = 0
    /\ disk = NoFile
    /\ files = <<>>
    /\ flushed = EmptyManifest
    /\ run = FreshRun
    /\ hist = [InitHist EXCEPT !.runs = MaxRuns - 1]

NextBatch ==
    \/ SyncStart
    \/ SyncList
    \/ SyncFetch
    \/ SyncSave
    \/ SyncAdd
    \/ SaveOpen
    \/ SaveWrite

SpecBatch == InitBatch /\ [][NextBatch]_vars

\* Calls of the request layer alone.
InitReq ==
    /\ tx = NoTx
    /\ rq = ReqIdle
    /\ cm = NoCm
    /\ remote = <<>>
    /\ max_pages = 0
    /\ disk = NoFile
    /\ files = <<>>
    /\ flushed = EmptyManifest
    /\ run = FreshRun
    /\ hist = InitHist

NextReq == ReqCall \/ ReqAttempt

SpecReq == InitReq /\ [][NextReq]_vars

\* The pacer alone: constructed as the runs construct it, for a configured
\* request_delay, then success() and failure() in any order.
PacerNew ==
    /\ \E rd \in RequestDelays :
          run' = [FreshRun EXCEPT !.delay = AdaptiveDelay(rd * 3)]
    /\ hist' = [InitHist EXCEPT !.ev = "pacer_new"]
    /\ UNCHANGED <<tx, rq, cm, remote, max_pages, disk, files, flushed>>

PacerSuccess ==
    /\ run.delay # NoPacer
    /\ run' = [run EXCEPT !.delay = success(@)]
    /\ hist' = [hist EXCEPT !.ev = "pacer_success"]
    /\ UNCHANGED <<tx, rq, cm, remote, max_pages, disk, files, flushed>>

PacerFailure ==
    /\ run.delay # NoPacer
    /\ run' = [run EXCEPT !.delay = failure(@)]
    /\ hist' = [hist EXCEPT !.ev = "pacer_failure"]
    /\ UNCHANGED <<tx, rq, cm, remote, max_pages, disk, files, flushed>>

NextPacer == PacerNew \/ PacerSuccess \/ PacerFailure

SpecPacer == InitReq /\ [][NextPacer]_vars

\* The manifests a store can hold: any owner, an entry or none for each id, in
\* any order, with either flag, the path that of the article or the default.
Entries ==
    {[key |-> Key(id),
      entry |-> [article_id |-> id,
                 file_path |-> IF p THEN build_article_path(id) ELSE "",
                 comments_fetched |-> b]] :
        id \in Ids, p \in BOOLEAN, b \in BOOLEAN}

\* The dicts of entries: one entry at most for a key.
ArticleDicts ==
    {a \in SeqsUpTo(Entries, MaxId) :
        \A j, k \in 1..Len(a) : a[j].key = a[k].key => j = k}

Manifests ==
    [user_id : {0, ConfigUserId, OtherUser}, last_sync : {0},
     articles : ArticleDicts]

\* The checkpoint store alone: a data directory with no manifest.json, or one
\* that cannot be read; save_manifest of any manifest, load_manifest.
InitStore ==
    /\ tx = NoTx
    /\ rq = ReqIdle
    /\ cm = NoCm
    /\ remote = <<>>
    /\ max_pages = 0
    /\ disk \in {NoFile, Torn, Invalid, Undecodable}
    /\ files = <<>>
    /\ flushed = EmptyManifest
    /\ run = FreshRun
    /\ hist = InitHist

\* save_manifest(data_dir, m): last_sync is set, the text written.
StoreSave ==
    /\ \E m \in Manifests :
          LET m2 == [m EXCEPT !.last_sync = hist.runs + 1]
          IN  /\ disk' = [kind |-> "complete", data |-> model_dump_json(m2)]
              /\ flushed' = m2
    /\ run' = FreshRun
    /\ hist' = [InitHist EXCEPT !.ev = "store_saved"]
    /\ UNCHANGED <<tx, rq, cm, remote, max_pages, files>>

\* load_manifest(data_dir): the manifest returned, or the exception raised.
StoreLoad ==
    /\ run' = [FreshRun EXCEPT !.manifest = LoadCall(disk).value,
                               !.error = LoadCall(disk).raised]
    /\ hist' = [InitHist EXCEPT !.ev = "store_loaded"]
    /\ UNCHANGED <<tx, rq, cm, remote, max_pages, disk, files, flushed>>

NextStore == StoreSave \/ StoreLoad

SpecStore == InitStore /\ [][NextStore]_vars

\* Remarks retrieval alone, applied to comment threads.
NextComments == CmCall

SpecComments == InitReq /\ [][NextComments]_vars

\* sanitize_filename alone, applied to titles.
NextSanitize == SanitizeCall

SpecSanitize == InitReq /\ [][NextSanitize]_vars

\* extract_article_html alone, applied to pages.
NextExtract == ExtractCall

SpecExtract == InitReq /\ [][NextExtract]_vars

\* html_to_markdown alone, applied to article bodies.
NextMarkdown == MarkdownCall

SpecMarkdown == InitReq /\ [][NextMarkdown]_vars

----------------------------------------------------------------------------
(* Properties of the Markdown conversion (SpecMarkdown) *)

\* html_to_markdown was called on content that parsed.
Walked == tx.fn = "html_to_markdown" /\ tx.arg.raw # <<>> /\ tx.arg.parse = "ok"

BodyKids == tx.arg.body.kids

\* The lines stated for a list: the prefix numbered over the li children
\* alone, then the text of the li.
ListLinesByItem(n) ==
    LET items == SelectSeq(n.kids, LAMBDA c : c.tag = "li")
    IN  [k \in 1..Len(items) |->
            (IF n.tag = "ol" THEN <<ToString(k), ".">> ELSE <<"-">>)
                \o <<" ">> \o Strip(get_all_text(items[k]), Whitespace)]

\* C23: a list in the body gives, between two empty lines, one line for each
\* of its li children, in order: "- " and the text of the li for a ul, "k. "
\* and the text for the k-th li of an ol, counted from 1 over the li
\* children; the text is that of the li with its markup taken out.
C23_ListConversion ==
    Walked =>
        \A k \in 1..Len(BodyKids) :
            BodyKids[k].tag \in {"ul", "ol"} =>
                /\ tx.out.raised = "none"
                /\ tx.out.blocks[k] =
                      << <<>> >> \o ListLinesByItem(BodyKids[k]) \o << <<>> >>

RECURSIVE ImagesIn(_)
\* The img elements with a src in an element, itself included.
ImagesIn(n) ==
    (IF n.tag = "img" /\ n.src # <<>> THEN {n} ELSE {})
    \cup UNION {ImagesIn(n.kids[k]) : k \in 1..Len(n.kids)}

\* The text sub occurs in the text t.
Occurs(sub, t) ==
    \E i \in 1..(Len(t) - Len(sub) + 1) : SubSeq(t, i, i + Len(sub) - 1) = sub

\* ![alt](src), https: put before a src that starts with //.
StatedImage(img) ==
    <<"!", "[">> \o img.alt \o <<"]", "(">>
        \o (IF Len(img.src) >= 2 /\ SubSeq(img.src, 1, 2) = <<"/", "/">>
            THEN <<"h", "t", "t", "p", "s", ":">> ELSE <<>>)
        \o img.src \o <<")">>

\* C24: an img with a src that is a child of the body, or lies in a
\* paragraph or in another element of the body that is not a list, is in the
\* lines of that child as ![alt](src), with https: before a src that starts
\* with // and the src as it is otherwise.
C24_ImageConversion ==
    (Walked /\ tx.out.raised = "none") =>
        \A k \in 1..Len(BodyKids) :
            BodyKids[k].tag \in {"img", "p", "span"} =>
                \A img \in ImagesIn(BodyKids[k]) :
                    \E j \in 1..Len(tx.out.blocks[k]) :
                        Occurs(StatedImage(img), tx.out.blocks[k][j])

Converted == tx.fn = "html_to_markdown" /\ tx.out.raised = "none"

\* The text neither starts nor ends with whitespace.
Trimmed(t) == t = <<>> \/ (t[1] \notin Whitespace /\ t[Len(t)] \notin Whitespace)

\* The text has no three newlines in a row.
NoBlankRun(t) == ~Occurs(<<"\n", "\n", "\n">>, t)

\* C25 as stated: whatever the input, the text returned is trimmed and has no
\* three newlines in a row, and is empty for the empty input.
C25_NormalisedAlways ==
    Converted =>
        /\ Trimmed(tx.out.text)
        /\ NoBlankRun(tx.out.text)
        /\ tx.arg.raw = <<>> => tx.out.text = <<>>

\* C25, amended: the text returned is trimmed; it has no three newlines in a
\* row when the input parsed and was walked; the fallback for an input that
\* does not parse returns its text with the tags out, trimmed, its newlines
\* as they were; the empty input gives the empty text.
C25_Normalised ==
    Converted =>
        /\ Trimmed(tx.out.text)
        /\ tx.arg.parse = "ok" => NoBlankRun(tx.out.text)
        /\ tx.arg.parse # "ok" =>
              /\ "<p>" \notin Range(tx.out.text)
              /\ \A c \in {"a", "\n"} :
                    Count(tx.out.text, c) <= Count(tx.arg.raw, c)
              /\ Count(tx.out.text, "a") = Count(tx.arg.raw, "a")
        /\ tx.arg.raw = <<>> => tx.out.text = <<>>

\* C25 witness: two paragraphs, the lines between them a run of three
\* newlines before the collapse, one empty line in the text returned.
C25_Witness ==
    /\ Walked /\ Converted
    /\ Len(BodyKids) = 2
    /\ BodyKids[1].tag = "p" /\ BodyKids[2].tag = "p"
    /\ Occurs(<<"\n", "\n", "\n">>, Join(Flatten(tx.out.blocks)))
    /\ tx.out.text = <<"a", "\n", "\n", "a">>

----------------------------------------------------------------------------
(* Properties of body extraction (SpecExtract) *)

Extracted == tx.fn = "extract_article_html"

\* The page has a content container the first strategy can reach.
HasContainer == tx.arg.tree = "ok" /\ tx.arg.containers # <<>>

\* The page has an embedded JSON object with a text or a description.
HasScriptBody ==
    tx.arg.script = "ok" /\ (tx.arg.text # "" \/ tx.arg.description # "")

\* C26: the result is the first content container when the page has one,
\* whatever the embedded script holds; without one it is the text of the
\* embedded JSON (its description when the text is empty); it is the empty
\* string when the page has neither, also when the page does not parse or the
\* JSON is malformed.
C26_ExtractionOrder ==
    Extracted =>
        /\ HasContainer => tx.out = tx.arg.containers[1]
        /\ (~HasContainer /\ HasScriptBody)
              => tx.out = IF tx.arg.text # "" THEN tx.arg.text
                          ELSE tx.arg.description
        /\ (~HasContainer /\ ~HasScriptBody) => tx.out = ""
        /\ tx.out \in (ContainerHtmls \cap Range(tx.arg.containers))
                          \cup {tx.arg.text, tx.arg.description, ""}

\* C26 witness: a page with two containers and an embedded JSON text: the
\* first container is the result.
C26_Witness ==
    /\ Extracted
    /\ Len(tx.arg.containers) = 2 /\ tx.arg.containers[1] # tx.arg.containers[2]
    /\ tx.arg.tree = "ok"
    /\ tx.arg.script = "ok" /\ tx.arg.text # ""
    /\ tx.out = tx.arg.containers[1]

----------------------------------------------------------------------------
(* Properties of sanitize_filename (SpecSanitize) *)

Sanitized == tx.fn = "sanitize_filename"

\* The title holds a character that can stay in a file name: a letter or
\* digit, a CJK character, a hyphen.
HasEligible(name) ==
    \E k \in 1..Len(name) : name[k] \in {"a", "zh", "-"}

----------------------------------------------------------------------------
(* Properties of the request layer (SpecReq) *)

Requests == Len(rq.resps)
Sleeps == Cardinality({k \in 1..Len(rq.events) : rq.events[k] = "sleep"})
CallOver == rq.outcome \notin {"running", "idle"}
LastEventIsRequest ==
    rq.events # <<>> /\ rq.events[Len(rq.events)] = "request"

\* C6: a call issues at most MAX_RETRIES = 5 requests; five non-JSON
\* responses end it with an error (the retry budget is exhausted when all
\* five are 2xx pages); a JSON-typed response ends the call on the spot, and
\* returns its value when it is a 2xx that parses; every sleep lies between two
\* requests, so there are at most 4 and none follows the last request.
C6_BoundedRetry ==
    /\ Requests <= MAX_RETRIES
    /\ Requests = Cardinality({k \in 1..Len(rq.events) : rq.events[k] = "request"})
    /\ (Requests = MAX_RETRIES /\ \A k \in 1..Requests : ~rq.resps[k].jsonct)
          => /\ rq.outcome \in {"Exhausted", "HTTPStatusError", "RequestError"}
             /\ rq.resps[Requests].ok2xx => rq.outcome = "Exhausted"
    /\ \A k \in 1..Requests :
          (rq.resps[k].jsonct /\ ~rq.resps[k].conn)
             => /\ k = Requests
                /\ CallOver
                /\ LastEventIsRequest
                /\ (rq.resps[k].ok2xx /\ rq.resps[k].parses) => rq.outcome = "ok"
    /\ Sleeps <= MAX_RETRIES - 1
    /\ \A k \in 1..Len(rq.events) :
          rq.events[k] = "sleep"
             => /\ k > 1 /\ rq.events[k - 1] = "request"
                /\ k < Len(rq.events) => rq.events[k + 1] = "request"
    /\ CallOver => LastEventIsRequest

\* C6 witness: five rate-limit pages, four sleeps, the budget exhausted.
C6_Witness ==
    /\ Requests = MAX_RETRIES
    /\ Sleeps = MAX_RETRIES - 1
    /\ rq.outcome = "Exhausted"

\* C9: an attempt that ends in a connection failure or a non-2xx status is the
\* last of the call: the error (RequestError, HTTPStatusError) is the call's
\* outcome, no request and no sleep follows, also when the non-2xx response is
\* a non-JSON page.
C9_TransportNotRetried ==
    \A k \in 1..Requests :
        (rq.resps[k].conn \/ ~rq.resps[k].ok2xx)
           => /\ k = Requests
              /\ LastEventIsRequest
              /\ rq.outcome = IF rq.resps[k].conn THEN "RequestError"
                              ELSE "HTTPStatusError"

\* C9 witness: a non-2xx, non-JSON page on a later attempt, raised at once.
C9_Witness ==
    /\ Requests > 1
    /\ ~rq.resps[Requests].conn
    /\ ~rq.resps[Requests].ok2xx
    /\ ~rq.resps[Requests].jsonct
    /\ rq.outcome = "HTTPStatusError"

\* C10: a JSON-typed response whose body does not parse ends the call with an
\* exception on that attempt, whatever its number: no sleep and no request
\* follows (RuntimeError for a 2xx, the status error otherwise).
C10_ParseFailureIsHard ==
    \A k \in 1..Requests :
        (~rq.resps[k].conn /\ rq.resps[k].jsonct /\ ~rq.resps[k].parses)
           => /\ k = Requests
              /\ LastEventIsRequest
              /\ rq.outcome = IF rq.resps[k].ok2xx THEN "JSONError"
                              ELSE "HTTPStatusError"

\* C10 witness: the unparsable JSON-typed 2xx arrives on the third attempt.
C10_Witness ==
    /\ Requests = 3
    /\ rq.resps[3].ok2xx /\ rq.resps[3].jsonct /\ ~rq.resps[3].parses
    /\ rq.outcome = "JSONError"

\* The seconds the k-th sleep of the call is computed from: the Retry-After
\* value of the k-th response when it is a number, 30 * k otherwise.
StatedBase(k) ==
    IF rq.resps[k].retry_after.kind = "number"
    THEN rq.resps[k].retry_after.value
    ELSE 30 * k

\* C11: the delay time.sleep is called with after the k-th non-JSON response
\* (in hundredths of a second) lies between 0.5 and 1.5 times the Retry-After
\* value when that header is a number, 30 * k seconds otherwise, and is never
\* negative.
C11_BackoffDelay ==
    \A k \in 1..Len(rq.delays) :
        /\ 50 * StatedBase(k) <= rq.delays[k]
        /\ rq.delays[k] <= 150 * StatedBase(k)
        /\ rq.delays[k] >= 0

----------------------------------------------------------------------------
(* Properties of remarks retrieval (SpecComments) *)

\* The comments of the pages the call fetched, in order of arrival.
FetchedComments ==
    Flatten([k \in 1..cm.result.requested |-> cm.pages[k].comments])

\* C17: the list returned holds exactly the comments of the fetched pages
\* whose user is the author, each as often as it came, and no other; it is
\* non-decreasing in created_at.
C17_AuthorCommentsSorted ==
    (cm.called /\ cm.result.ok) =>
        /\ \A c \in AnyComments :
              Count(cm.result.comments, c) =
                  IF c.user = cm.author_id THEN Count(FetchedComments, c) ELSE 0
        /\ \A k \in 1..(Len(cm.result.comments) - 1) :
              cm.result.comments[k].created_at
                  <= cm.result.comments[k + 1].created_at

\* C17 witness: two pages fetched, comments of the author arriving newest
\* first among comments of another user and of no user.
C17_Witness ==
    /\ cm.called /\ cm.result.ok /\ cm.result.requested = 2
    /\ Len(cm.result.comments) >= 2
    /\ \E j, k \in 1..Len(FetchedComments) :
          /\ j < k
          /\ FetchedComments[j].user = cm.author_id
          /\ FetchedComments[k].user = cm.author_id
          /\ FetchedComments[j].created_at > FetchedComments[k].created_at
    /\ \E k \in 1..Len(FetchedComments) : FetchedComments[k].user = NoUser
    /\ \E k \in 1..Len(FetchedComments) :
          FetchedComments[k].user \notin {NoUser, cm.author_id}

\* The loop stops after page k of the thread: k is the last page reported
\* with it, or it holds no comment.
StopsAfter(k) ==
    k >= cm.pages[k].maxPage \/ cm.pages[k].comments = <<>>

\* C28: a retrieval requests the comment pages 1, 2, ... up to a page n of the
\* thread and none after it; n is the first page that is the last one
\* reported with it or holds no comment.
C28_RemarksPagination ==
    cm.called =>
        /\ cm.result.requested \in 1..Len(cm.pages)
        /\ \A k \in 1..(cm.result.requested - 1) : ~StopsAfter(k)
        /\ cm.result.ok => StopsAfter(cm.result.requested)

\* C28 witness: the first page held comments and reported two pages, the
\* second page was requested and was the last.
C28_Witness ==
    /\ cm.called /\ cm.result.ok
    /\ cm.result.requested = 2
    /\ cm.pages[1].comments # <<>> /\ cm.pages[1].maxPage = 2
    /\ cm.pages[2].comments # <<>> /\ cm.pages[2].maxPage = 2

----------------------------------------------------------------------------
(* Properties of the checkpoint store (SpecStore) *)

Loaded == hist.ev = "store_loaded"

\* C18: load_manifest of a data directory whose manifest.json is absent, or
\* cannot be decoded, parsed or validated, raises nothing and returns a
\* manifest with no entry.
C18_LoadNeverFails ==
    (Loaded /\ disk.kind # "complete") =>
        /\ run.error = "none"
        /\ run.manifest.articles = <<>>
        /\ \A id \in Ids : ~has_article(run.manifest, id)

\* C18 witness: manifest.json held JSON that is not a manifest when it was
\* loaded.
C18_Witness == Loaded /\ disk = Invalid /\ run.manifest = EmptyManifest

\* C19: the manifest load_manifest returns after save_manifest has the user_id
\* of the manifest saved, and has_article holds of it for exactly the ids it
\* held of the one saved, each entry with the file_path and comments_fetched
\* it had.
C19_RoundTrip ==
    (Loaded /\ disk.kind = "complete") =>
        /\ run.error = "none"
        /\ run.manifest.user_id = flushed.user_id
        /\ \A id \in Ids :
              /\ has_article(run.manifest, id) <=> has_article(flushed, id)
              /\ has_article(flushed, id) =>
                    /\ EntryOf(run.manifest, id).file_path
                          = EntryOf(flushed, id).file_path
                    /\ EntryOf(run.manifest, id).comments_fetched
                          = EntryOf(flushed, id).comments_fetched
                    /\ EntryOf(run.manifest, id).article_id = id

\* C19 witness: a manifest of another owner with two entries, one of them
\* with comments_fetched false, saved and loaded.
C19_Witness ==
    /\ Loaded /\ disk.kind = "complete"
    /\ flushed.user_id # 0
    /\ Len(flushed.articles) = 2
    /\ PendingIds(flushed) # {} /\ PendingIds(flushed) # KnownIds(flushed)
    /\ run.manifest = flushed

----------------------------------------------------------------------------
(* Properties of the pacer (SpecPacer) *)

\* C12: from its construction on, the pacer's current delay lies between
\* min_delay and max_delay, whatever request_delay is configured.
C12_PacerBounds ==
    run.delay # NoPacer =>
        /\ run.delay.min_delay <= run.delay.current
        /\ run.delay.current <= run.delay.max_delay

\* C13: success() never raises the current delay and failure() never lowers
\* it.
C13_PacerDirection ==
    [][/\ PacerSuccess => run'.delay.current <= run.delay.current
       /\ PacerFailure => run'.delay.current >= run.delay.current]_vars

\* success() or failure() has been applied to the pacer since it was built.
FeedbackApplied == hist.ev \in {"pacer_success", "pacer_failure"}

\* C30: once success() or failure() has been applied, the current delay lies
\* between min_delay and max_delay, and stays there, whatever base the pacer
\* was built with.
C30_PacerSettles ==
    FeedbackApplied =>
        /\ run.delay.min_delay <= run.delay.current
        /\ run.delay.current <= run.delay.max_delay

----------------------------------------------------------------------------
(* Properties of the item loop of a full sync (SpecBatch) *)

\* An item of a full sync has been fetched and is on its way to its download
\* being counted.
ItemThrough == run.mode = "sync" /\ run.pc \in {"save", "add"}

\* C21: when an item of a full sync goes through, one long pause was taken
\* since the download before it if that was the 5th, 10th, ... of the run, and
\* none otherwise, whatever failed in between.
C21_OnePausePerBatch ==
    ItemThrough =>
        hist.long_pauses = IF BatchDue(run.downloaded) THEN 1 ELSE 0

----------------------------------------------------------------------------
(* Properties of the runs (Spec) *)

Running == run.pc \notin Stopped

\* What the run in progress has achieved so far: the ids whose file a sync
\* has saved, the ids whose remarks a backfill has appended and flagged.
Achieved ==
    IF run.mode = "sync" THEN hist.saved
    ELSE hist.startPending \ PendingIds(run.manifest)

\* The part of it the checkpoint on disk does not show.
NotOnDisk ==
    LET onDisk == load_manifest(disk)
    IN  IF run.mode = "sync"
        THEN {id \in Achieved : ~has_article(onDisk, id)}
        ELSE {id \in Achieved : id \notin KnownIds(onDisk) \/ id \in PendingIds(onDisk)}

\* C1: at whatever point a run is interrupted, the checkpoint on disk lacks at
\* most one of the items the run has fetched and saved, and holds every entry
\* of the last completed flush.
C1_CrashLossBound ==
    Running =>
        /\ Cardinality(NotOnDisk) <= 1
        /\ KnownIds(flushed) \subseteq KnownIds(load_manifest(disk))

\* C2: inside save_manifest, the entries load_manifest would return are all
\* those of the checkpoint of before the save or all those of the checkpoint
\* being saved.
C2_AtomicSave ==
    run.pc = "flush_write" =>
        load_manifest(disk).articles \in {hist.before.articles, run.manifest.articles}

\* A full sync that started right after a full sync returned; the timeline is
\* the same for both.
SecondSync == run.mode = "sync" /\ hist.prev.syncDone

ItemCalls == hist.calls \cap {"detail", "comments"}

\* C3 as stated: the second of two full syncs in succession returns 0, makes
\* no detail or comments request and leaves the set of ids unchanged.
C3_IdempotentAlways ==
    (SecondSync /\ run.pc = "done") =>
        /\ run.result = 0
        /\ ItemCalls = {}
        /\ KnownIds(run.manifest) = hist.startIds

\* C3, amended: when the first full sync left no item it attempted out of the
\* checkpoint, the second makes no detail or comments request, downloads
\* nothing, returns 0, and the ids in memory and on disk stay those it
\* started with.
C3_Idempotent ==
    (SecondSync /\ hist.prev.skipped = {}) =>
        /\ ItemCalls = {}
        /\ run.downloaded = 0
        /\ KnownIds(run.manifest) = hist.startIds
        /\ run.pc = "done" =>
              /\ run.result = 0
              /\ KnownIds(load_manifest(disk)) = hist.startIds

\* C3 witness: a second sync returns over a checkpoint that holds articles,
\* the first having skipped none.
C3_Witness ==
    /\ SecondSync /\ hist.prev.skipped = {}
    /\ run.pc = "done"
    /\ hist.startIds # {}
    /\ hist.listed # {}

\* The three conditions under which the loop goes on after listing page
\* run.page: it held an item, it is not the last page reported, and the cap,
\* when there is one, is not reached.
MorePages ==
    /\ run.resp.articles # <<>>
    /\ run.page < run.resp.maxPage
    /\ max_pages = 0 \/ run.page < max_pages

\* C14: a full sync goes to request listing page n + 1 only from the end of
\* page n, and only if page n held an item, n is below the maxPage that came
\* with it and below the page cap when one is set; when one of the three
\* fails, the run ends after page n, returning its count.
C14_PaginationStop ==
    [][/\ (run'.pc = "list" /\ run.pc \notin Stopped)
           => /\ run.mode = "sync" /\ run.pc = "flush_write"
              /\ run'.page = run.page + 1
              /\ MorePages
       /\ (run.mode = "sync" /\ run.pc = "flush_write" /\ ~MorePages
            /\ run'.pc # "crashed")
           => /\ run'.pc = "done"
              /\ run'.page = run.page
              /\ run'.result = run.downloaded]_vars

\* C14 witness: a run has ended at the page cap, with an item on the page and
\* more pages reported.
C14_Witness ==
    /\ run.mode = "sync" /\ run.pc = "done"
    /\ max_pages # 0 /\ run.page = max_pages
    /\ run.resp.articles # <<>>
    /\ run.page < run.resp.maxPage

\* What manifest.json loads as holds the entries the run has in memory.
DiskUpToDate == load_manifest(disk).articles = run.manifest.articles

\* manifest.json is the whole text of a save_manifest.
DiskWritten == disk.kind = "complete"

\* C15: in a full sync the checkpoint is on disk, with every entry of the
\* pages processed so far, when the next listing page is requested and when
\* the run returns, and it is written only once the items of the page are
\* through; in a backfill it is on disk, with every flag flipped so far, when
\* the next pending entry is attempted and when the run returns, the write
\* following each entry whose remarks were retrieved.
C15_FlushOrdering ==
    /\ []((run.mode = "sync" /\ run.pc \in {"list", "done"} /\ run.page > 1)
            => DiskUpToDate /\ DiskWritten)
    /\ []((run.mode = "sync" /\ run.pc = "done")
            => DiskUpToDate /\ DiskWritten)
    /\ []((run.mode = "sync" /\ run.pc \in {"flush", "flush_write"})
            => run.i = 0)
    /\ []((run.mode = "backfill" /\ run.pc \in {"bf_fetch", "done"})
            => /\ DiskUpToDate
               /\ run.backfilled > 0 => DiskWritten)
    /\ [][(run.mode = "backfill" /\ run.pc = "bf_apply" /\ run'.pc # "crashed")
            => run'.pc = "flush"]_vars
    /\ [][(run.pc = "flush_write" /\ run'.pc # "crashed")
            => /\ disk'.kind = "complete"
               /\ load_manifest(disk') = run.manifest
               /\ run'.pc \in {"list", "bf_fetch", "done"}]_vars

\* C15 witness: the second listing page is about to be requested, the
\* articles of the first one downloaded in this run.
C15_Witness ==
    /\ run.mode = "sync" /\ run.pc = "list" /\ run.page = 2
    /\ run.downloaded > 0
    /\ KnownIds(run.manifest) # hist.startIds

\* A backfill run takes the step that follows a retrieval of remarks that
\* succeeded, for the entry of key PendingKey kept in the file PendingPath.
ApplyStep == run.mode = "backfill" /\ run.pc = "bf_apply" /\ run'.pc = "flush"
PendingKey == run.pending[run.i]
PendingPath == EntryOf(run.manifest, IdOfKey(PendingKey)).file_path

\* C16 as stated: every retrieval that succeeds adds a remarks section to the
\* file.
C16_AlwaysAppends ==
    [][ApplyStep =>
          Len(files'[PendingPath].sections) = Len(files[PendingPath].sections) + 1]_vars

\* C16, amended: a backfill run tries the remarks of exactly the entries it
\* found with comments_fetched false; a retrieval that succeeds sets the flag
\* of the entry, and when it returned at least one remark a section is added
\* at the end of the file, what the file held before kept, the file left as it
\* is when it returned none; a retrieval that fails leaves flag, file and
\* count as they are and the run goes on with the next pending entry; the run
\* returns the number of entries whose flag it set.
C16_Backfill ==
    /\ [](run.mode = "backfill"
            => /\ {IdOfKey(run.pending[k]) : k \in 1..Len(run.pending)}
                      = hist.startPending
               /\ hist.tried \subseteq hist.startPending
               /\ KnownIds(run.manifest) = hist.startIds)
    /\ []((run.mode = "backfill" /\ run.pc = "done")
            => /\ hist.tried = hist.startPending
               /\ run.result = Cardinality(hist.startPending
                                               \ PendingIds(run.manifest)))
    /\ [][ApplyStep =>
            /\ EntryOf(run'.manifest, IdOfKey(PendingKey)).comments_fetched
            /\ PendingIds(run'.manifest) = PendingIds(run.manifest) \ {IdOfKey(PendingKey)}
            /\ files' = IF run.comments # <<>>
                        THEN [files EXCEPT ![PendingPath].sections =
                                               Append(@, "backfill")]
                        ELSE files]_vars
    /\ [][(hist'.ev = "bf_failed" /\ hist' # hist) =>
            /\ run'.manifest = run.manifest
            /\ files' = files
            /\ run'.backfilled = run.backfilled
            /\ run'.pc \in {"bf_fetch", "done"}
            /\ run.i < Len(run.pending) => run'.pc = "bf_fetch"]_vars

\* C16 witness: a backfill has returned 1, having tried two pending entries,
\* one retrieval failing, the other adding a section to a file.
C16_Witness ==
    /\ run.mode = "backfill" /\ run.pc = "done"
    /\ Cardinality(hist.startPending) = 2
    /\ run.result = 1
    /\ \E p \in DOMAIN files : "backfill" \in Range(files[p].sections)

\* A step of a full sync that issued requests.
RequestStep == run.mode = "sync" /\ hist'.reqs # <<>> /\ hist' # hist

\* A step of a full sync under way that is not its end by a crash.
SyncStep == run.mode = "sync" /\ run.pc \notin Stopped /\ run'.pc # "crashed"

\* C20: a full sync issues its requests one at a time, each step those of one
\* place of the loops: the listing of the current page; or the detail of the
\* current new item, then, the detail having returned, its comment pages 1,
\* 2, ... in order, a page that fails being the last.  The places follow in
\* order: the listing of a page, its new items one by one in listing order,
\* none skipped and none twice, and the next page only after the last of
\* them.
C20_Sequencing ==
    /\ [][RequestStep =>
            \/ /\ run.pc = "list"
               /\ hist'.reqs = <<Req("list", run.page, 0, 0)>>
            \/ /\ run.pc = "fetch"
               /\ hist'.reqs = <<Req("detail", run.page, run.i, 0)>>
                     \o CommentRequests(run.page, run.i, Len(hist'.reqs) - 1)
               /\ hist'.err.call = "detail" => Len(hist'.reqs) = 1]_vars
    /\ [][(SyncStep /\ run.pc = "list" /\ run'.pc # "aborted") =>
            /\ run'.page = run.page
            /\ run'.new_on_page = SelectSeq(run'.resp.articles,
                                   LAMBDA a : ~has_article(run.manifest, a))
            /\ run'.i = IF run'.new_on_page = <<>> THEN 0 ELSE 1]_vars
    /\ [][(SyncStep /\ run.pc \in {"fetch", "save", "add"}) =>
            /\ run'.page = run.page
            /\ run'.new_on_page = run.new_on_page
            /\ \/ run'.i = run.i /\ run.pc # "add"
                     /\ <<run.pc, run'.pc>> \in {<<"fetch", "save">>, <<"save", "add">>}
               \/ run'.i = run.i + 1 /\ run'.pc = "fetch"
                     /\ run'.i <= Len(run.new_on_page)
               \/ run.i = Len(run.new_on_page) /\ run'.i = 0
                     /\ run'.pc = "flush"]_vars
    /\ [][(SyncStep /\ run'.page # run.page) =>
            /\ run.pc = "flush_write" /\ run.i = 0
            /\ run'.page = run.page + 1 /\ run'.pc = "list"]_vars
    /\ [](run.mode = "sync" =>
            /\ run.pc \in {"fetch", "save", "add"}
                  <=> run.i \in 1..Len(run.new_on_page)
            /\ run.pc \in {"fetch", "save", "add"} \/ run.i = 0)

\* C20 witness: the second new item of a page has had its detail and two
\* pages of comments requested.
C20_Witness ==
    /\ run.mode = "sync" /\ run.pc = "save" /\ run.i = 2
    /\ hist.reqs = <<Req("detail", run.page, 2, 0),
                     Req("comments", run.page, 2, 1),
                     Req("comments", run.page, 2, 2)>>

\* An item of a full sync is over: it failed, or its download was counted.
ItemOver == run.mode = "sync" /\ hist.ev \in {"skipped", "added"}

\* C27: in a full sync, an item for which a call was rate-limited to the end
\* of its retries or got an HTTP error status has failure() applied to the
\* pacer when it is over, and success() is applied only when the item had no
\* such call.
C27_PacerFeedback ==
    /\ (ItemOver /\ hist.item_hit) => hist.fb = "failure"
    /\ (run.mode = "sync" /\ hist.fb = "success") => ~hist.item_hit

\* Where in the last step the pacer waited, and where requests were issued.
WaitsAt == {k \in 1..Len(hist.trace) : hist.trace[k].kind = "wait"}
RequestsAt ==
    {k \in 1..Len(hist.trace) : hist.trace[k].kind \in {"list", "detail", "comments"}}

\* The last step was the fetch of an item: of a new article in a full sync,
\* of a pending entry in a backfill.
ItemFetchStep == hist.reqs # <<>> /\ hist.reqs[1].kind # "list"

\* C29: the step that fetches an item, in a full sync and in a backfill,
\* waits on the pacer once, before the first request of the item; the
\* requests of the step (detail, comment pages) are all of that item, and
\* what lies between them is time.sleep(request_delay), never a wait on the
\* pacer.
C29_PacerGap ==
    ItemFetchStep =>
        /\ Cardinality(WaitsAt) = 1
        /\ \A w \in WaitsAt, r \in RequestsAt : w < r
        /\ Cardinality(RequestsAt) = Len(hist.reqs)
        /\ \A j, k \in RequestsAt :
              j < k => /\ hist.trace[j].item = hist.trace[k].item
                       /\ \A x \in (j + 1)..(k - 1) :
                             hist.trace[x].kind \in {"sleep", "comments"}

\* C29 witness: the second new item of a page had its detail and two pages
\* of comments requested after one wait.
C29_Witness ==
    /\ run.mode = "sync" /\ run.pc = "save" /\ run.i = 2
    /\ hist.trace = <<Req("wait", run.page, 2, 0),
                      Req("detail", run.page, 2, 0),
                      Req("sleep", run.page, 2, 0),
                      Req("comments", run.page, 2, 1),
                      Req("sleep", run.page, 2, 0),
                      Req("comments", run.page, 2, 2)>>

SkipStep == hist'.ev = "skipped" /\ hist' # hist

C5_RemarksFailureKeepsItem ==
    /\ (run.mode = "sync" /\ hist.ev = "fetched" /\ hist.err.call = "comments")
          => /\ run.pc = "save"
             /\ run.full.comments_fetch_failed
             /\ run.full.author_comments = <<>>
    /\ (run.mode = "sync" /\ hist.ev = "added" /\ run.full.comments_fetch_failed)
          => /\ has_article(run.manifest, run.full.id)
             /\ ~EntryOf(run.manifest, run.full.id).comments_fetched
             /\ files[EntryOf(run.manifest, run.full.id).file_path].sections = <<>>
    /\ run.mode = "sync"
          => /\ \A id \in hist.startPending : has_article(run.manifest, id)
             /\ hist.fetched \cap hist.startPending = {}

\* C5 witness: a sync has returned whose listing held an id that it found in
\* the checkpoint with comments_fetched false.
C5_Witness ==
    /\ run.mode = "sync" /\ run.pc = "done"
    /\ hist.startPending \cap hist.listed # {}

Exhausted(call) == hist.err = [call |-> call, outcome |-> "Exhausted"]

\* C7 as stated: once a call has used up its retries, the run has stopped with
\* that error.
C7_ExhaustionAborts ==
    hist.err.outcome = "Exhausted" =>
        run.pc = "aborted" /\ run.error = "Exhausted"

\* C7, amended: a listing call that uses up its retries stops the run with that
\* error; a detail call that does is the failure of one item, and the loop goes
\* on; a comments call that does leaves a full sync with the article to save
\* without remarks, and a backfill with the entry still pending and the next
\* entry to try.
C7_ExhaustionByCall ==
    /\ Exhausted("list") => run.pc = "aborted" /\ run.error = "Exhausted"
    /\ Exhausted("detail") => hist.ev = "skipped" /\ run.pc \in {"fetch", "flush"}
    /\ (Exhausted("comments") /\ run.mode = "sync")
          => run.pc = "save" /\ run.full.comments_fetch_failed
    /\ (Exhausted("comments") /\ run.mode = "backfill")
          => /\ run.pc \in {"bf_fetch", "done"}
             /\ PendingIds(run.manifest) # {}

\* C7 witness: the second listing page of a sync used up its retries.
C7_Witness ==
    /\ Exhausted("list")
    /\ run.page > 1
    /\ run.pc = "aborted"

\* C8: a transport or HTTP-status error on a call of a full sync does not stop
\* the run.
C8_TransportNeverAborts ==
    (run.mode = "sync" /\ IsTransportError(hist.err.outcome)) =>
        run.pc # "aborted"


\* A step of a full sync that fetches the item the loop has reached.
ItemFetch == run.mode = "sync" /\ run.pc = "fetch" /\ hist'.fetched # {} /\ hist' # hist

\* C31: a full sync fetches no item it has fetched before in the run, and
\* the number it returns is the number of ids it added to the checkpoint.
C31_CountAgrees ==
    [][/\ ItemFetch => run.new_on_page[run.i] \notin hist.fetched
       /\ (run.mode = "sync" /\ run.pc \notin Stopped /\ run'.pc = "done")
            => run'.result = Cardinality(hist'.added)]_vars

\* The entry a full sync has just recorded, and the file at its path.
Recorded == run.mode = "sync" /\ hist.ev = "added"
NewEntry == EntryOf(run.manifest, run.full.id)

\* C32: when a full sync has retrieved the remarks of an item, the item
\* carries the failure flag exactly when one of the comment pages asked for
\* failed, and then it carries no remark; the entry recorded has the flag
\* comments_fetched false exactly when the item carries the failure flag, and
\* then the file saved at its path has no remarks section.
C32_NoPartialRemarks ==
    /\ (run.mode = "sync" /\ hist.ev = "fetched") =>
          /\ hist.cpages # <<>>
          /\ run.full.comments_fetch_failed
                <=> (\E k \in 1..Len(hist.cpages) : hist.cpages[k] # "ok")
          /\ run.full.comments_fetch_failed => run.full.author_comments = <<>>
    /\ Recorded =>
          /\ NewEntry.comments_fetched = ~run.full.comments_fetch_failed
          /\ ~NewEntry.comments_fetched =>
                /\ NewEntry.file_path \in DOMAIN files
                /\ files[NewEntry.file_path].sections = <<>>

\* C32 witness: an item whose retrieval of remarks failed has been recorded,
\* flag false, its file without a remarks section.
C32_Witness ==
    /\ Recorded
    /\ run.full.comments_fetch_failed
    /\ ~NewEntry.comments_fetched
    /\ files[NewEntry.file_path].sections = <<>>

\* The ids of the checkpoint, in memory and on disk, with their entries.
Checkpointed ==
    {EntryOf(run.manifest, id) : id \in KnownIds(run.manifest)}
    \cup {EntryOf(load_manifest(disk), id) : id \in KnownIds(load_manifest(disk))}

\* C36: at every point of a full sync, and after it was killed at any point,
\* every entry of the checkpoint in memory and of the checkpoint on disk has
\* at its file_path the file of its article, completely written.
C36_FileBeforeCheckpoint ==
    run.mode = "sync" =>
        \A e \in Checkpointed :
            /\ e.file_path \in DOMAIN files
            /\ files[e.file_path].article_id = e.article_id
            /\ files[e.file_path].complete

\* C36 witness: a full sync was killed within save_article, the file of the
\* item cut short, while the checkpoint on disk holds an item saved before.
C36_Witness ==
    /\ run.mode = "sync" /\ run.pc = "crashed"
    /\ KnownIds(load_manifest(disk)) # {}
    /\ \E p \in DOMAIN files : ~files[p].complete

----------------------------------------------------------------------------
(* Properties of runs that are not killed (SpecNoCrash) *)

\* save_manifest completes: manifest.json, opened and emptied in the step
\* before, holds the checkpoint again.  hist.before is what it held before
\* it was opened.
FlushStep == disk.kind = "torn" /\ disk'.kind = "complete"

\* C33: from one completed write of the checkpoint to the next, in runs of
\* either mode, no id leaves the checkpoint on disk and no entry goes from
\* comments_fetched true to false; a full sync leaves every entry that was
\* there as it was.
C33_CheckpointMonotone ==
    [][FlushStep =>
        LET before == hist.before
            after == load_manifest(disk')
        IN  /\ KnownIds(before) \subseteq KnownIds(after)
            /\ \A id \in KnownIds(before) :
                  /\ EntryOf(before, id).comments_fetched
                        => EntryOf(after, id).comments_fetched
                  /\ run.mode = "sync" => EntryOf(after, id) = EntryOf(before, id)]_vars

\* C33 witness: a full sync that found a checkpoint with entries has written
\* it back with one more.
C33_Witness ==
    /\ run.mode = "sync" /\ hist.ev = "flushed"
    /\ hist.startIds # {}
    /\ hist.startIds \subseteq KnownIds(load_manifest(disk))
    /\ hist.startIds # KnownIds(load_manifest(disk))

\* Checkpoint b is checkpoint a but for flags of a that were false and are
\* true in b: the same keys in the same order, the same user_id, every other
\* field of every entry the same.
SameButFlags(a, b) ==
    /\ b.user_id = a.user_id
    /\ Len(b.articles) = Len(a.articles)
    /\ \A k \in 1..Len(a.articles) :
          /\ b.articles[k].key = a.articles[k].key
          /\ \/ b.articles[k].entry = a.articles[k].entry
             \/ /\ ~a.articles[k].entry.comments_fetched
                /\ b.articles[k].entry =
                      [a.articles[k].entry EXCEPT !.comments_fetched = TRUE]

\* C34: a backfill starts on the checkpoint as it is on disk; each of its
\* steps, and each write of the checkpoint it completes, leaves the keys,
\* the user_id and every entry as they were, but for the flag
\* comments_fetched of entries where it was false.
C34_BackfillFrame ==
    [][/\ (run'.mode = "backfill" /\ run.pc \in Stopped /\ hist'.ev = "start")
            => /\ run'.manifest.user_id = load_manifest(disk).user_id
               /\ run'.manifest.articles = load_manifest(disk).articles
       /\ (run.mode = "backfill" /\ run'.mode = "backfill" /\ run.pc \notin Stopped)
            => SameButFlags(run.manifest, run'.manifest)
       /\ (run.mode = "backfill" /\ FlushStep)
            => SameButFlags(hist.before, load_manifest(disk'))]_vars

\* C34 witness: a backfill has written the checkpoint with the flag of an
\* entry that was pending set, another entry in it not pending at the start.
C34_Witness ==
    /\ run.mode = "backfill" /\ hist.ev = "flushed"
    /\ \E id \in hist.startPending :
          EntryOf(load_manifest(disk), id).comments_fetched
    /\ hist.startIds # hist.startPending

\* The remarks sections a backfill has appended to the file at path p.
Appended(fs, p) == Count(fs[p].sections, "backfill")

\* C35: in runs that are not killed, no file has more than one remarks
\* section, appended or written with the article; and a step appends a
\* section only to the file of an entry whose flag comments_fetched is false
\* in the checkpoint on disk.
C35_NoDuplicateRemarks ==
    /\ [](\A p \in DOMAIN files : Len(files[p].sections) <= 1)
    /\ [][\A p \in DOMAIN files :
            Appended(files', p) > Appended(files, p) =>
                /\ Appended(files', p) = 1
                /\ ~EntryOf(load_manifest(disk),
                            files[p].article_id).comments_fetched]_vars

\* C35 witness: a second backfill has tried a pending entry and returned, the
\* file of another entry holding the one section the first backfill appended.
C35_Witness ==
    /\ run.mode = "backfill" /\ run.pc = "done"
    /\ hist.runs = 2
    /\ hist.tried # {}
    /\ \E p \in DOMAIN files :
          /\ files[p].article_id \notin hist.tried
          /\ files[p].sections = <<"backfill">>

----------------------------------------------------------------------------
(* Properties of runs that go on (SpecLive) *)

SyncRunning == run.mode = "sync" /\ run.pc \notin Stopped
BackfillRunning == run.mode = "backfill" /\ run.pc \notin Stopped

\* C37 as stated: a full sync ends; it asks for at most max_pages listing
\* pages when max_pages > 0, and when max_pages = 0 it has asked, when it
\* returns, for at most as many as the largest maxPage reported to it.
C37_TerminatesAsStated ==
    /\ SyncRunning ~> ~SyncRunning
    /\ [](run.mode = "sync" =>
            IF max_pages > 0 THEN hist.lists <= max_pages
            ELSE run.pc = "done" => hist.lists <= hist.top)

\* C37, amended: a full sync ends; it asks for at most max_pages listing
\* pages when max_pages > 0, and when max_pages = 0 for the first page and
\* for no more pages than the largest maxPage reported to it.
C37_Terminates ==
    /\ SyncRunning ~> ~SyncRunning
    /\ [](run.mode = "sync" =>
            IF max_pages > 0 THEN hist.lists <= max_pages
            ELSE hist.lists <= Max(1, hist.top))

\* C37 witness: a full sync capped at one page has returned after one
\* listing request, the listing reporting two pages.
C37_Witness ==
    /\ run.mode = "sync" /\ run.pc = "done"
    /\ max_pages = 1
    /\ hist.lists = 1
    /\ hist.top >= 2

\* A step of a backfill that tries the remarks of the entry the loop reached.
PendingFetch ==
    run.mode = "backfill" /\ run.pc = "bf_fetch" /\ run'.pc # "crashed" /\ hist' # hist

\* C38: a backfill tries no entry it has tried before in the run, has tried
\* every entry that was pending at its start when it returns, and returns.
C38_EachPendingOnce ==
    /\ [][PendingFetch => IdOfKey(run.pending[run.i]) \notin hist.tried]_vars
    /\ []((run.mode = "backfill" /\ run.pc = "done")
            => hist.tried = hist.startPending)
    /\ BackfillRunning ~> (run.mode = "backfill" /\ run.pc = "done")

\* C38 witness: a backfill has returned 0 having tried two pending entries,
\* the retrieval failing for the first and for the second.
C38_Witness ==
    /\ run.mode = "backfill" /\ run.pc = "done"
    /\ Cardinality(hist.startPending) = 2
    /\ hist.tried = hist.startPending
    /\ run.result = 0

====
